---- MODULE Spec2Model ----
(***************************************************************************)
(* Model of the date normalization engine of generador-reportes:           *)
(* scripts/dates.py (_try_make_date, _split_ddmmaa, a_iso_y_display) and   *)
(* its callers in scripts/ui_panels.py (Spec, and SpecRoundTrip where a    *)
(* returned display text is read again); the elapsed-days                  *)
(* computations of ui_panels.py and reporte_general.py (SpecDias); the     *)
(* column aliasing of app.py (SpecAlias); the date comparators of          *)
(* scripts/grid.py (SpecGrid); the panel loop of                           *)
(* scripts/superset_downloader.py (SpecDownload); the session history of   *)
(* app.py (SpecHistory).                                                   *)
(*                                                                         *)
(* Text is a sequence of one-character strings, so that the regular        *)
(* expression, int() and the f-string formatting are computed, not         *)
(* assumed.  A calendar date is a triple <<Y, m, d>>, None is <<>>.         *)
(***************************************************************************)
EXTENDS Integers, Sequences, FiniteSets, TLC

VARIABLES
    hoy,              \* date.today(): the ambient clock, fixed during a run
    pc,               \* "idle" | "loop" | "done" | "raised" | "kept": position in a_iso_y_display
    series,           \* the values of the input pd.Series, in positional order
    index,            \* series.index: one label per position
    dias_ref_series,  \* [given |-> BOOLEAN, vals |-> sequence of hints]
    i,                \* number of rows the loop has consumed
    iso_vals,         \* the list iso_vals
    disp_vals,        \* the list disp_vals
    v,                \* value of the row handled last
    dias_ref,         \* hint handed to _split_ddmmaa for that row
    ret,              \* what _split_ddmmaa returned for that row
    out_iso,          \* first returned pd.Series  [index, vals]
    out_disp,         \* second returned pd.Series [index, vals]
    site,             \* the caller: "direct" or a call line of ui_panels.py
    df_dias,          \* the caller's "DIAS ABIERTA" column, if its frame has one
    earlier           \* history: one row of an earlier call and its two entries

datesVars == <<hoy, pc, series, index, dias_ref_series, i, iso_vals, disp_vals,
               v, dias_ref, ret, out_iso, out_disp, site, df_dias, earlier>>

VARIABLES
    dias_pc,          \* "idle" | "done" | "raised": an elapsed-days computation
    dias_site,        \* which code computed the "DIAS ABIERTA" column
    dias_start,       \* the start column handed to it, in positional order
    dias_end,         \* [given |-> BOOLEAN, vals |-> the end column]
    dias_index,       \* the index of the start column
    dias_out          \* the column it produced [index, vals]

diasVars == <<dias_pc, dias_site, dias_start, dias_end, dias_index, dias_out>>

VARIABLES
    alias_pc,         \* "idle" | "done" | "processed": a column lookup of app.py
    alias_op,         \* "_normalize_for_excel" | "_col"
    df_columns,       \* df.columns, in order
    col_names,        \* the names handed to _col
    colmap,           \* the rename plan: a set of [src, target]
    out_columns,      \* the columns of the frame _normalize_for_excel returns
    col_ret,          \* what _col returned: [found, name]
    df_passed,        \* the frame as it was handed to _normalize_for_excel:
                      \* [columns, cells]
    df_cells,         \* the cell values of the caller's frame, column by column
    out_cells,        \* the cell values of the returned frame
    out_shared        \* the returned frame is the caller's frame object

aliasVars == <<alias_pc, alias_op, df_columns, col_names, colmap, out_columns,
               col_ret, df_passed, df_cells, out_cells, out_shared>>

VARIABLES
    grid_pc,          \* "idle" | "compared" | "sorted": the grid of a tab
    grid_col,         \* the date column at work: "crea" | "act"
    grid_nodes,       \* the row nodes handed to the comparator or the sort
    cmp_ret,          \* cmp_ret[x][y]: what the comparator returned for
                      \* (grid_nodes[x], grid_nodes[y])
    grid_sorted       \* the row nodes in the order the sort left them

gridVars == <<grid_pc, grid_col, grid_nodes, cmp_ret, grid_sorted>>

VARIABLES
    dl_pc,            \* "idle" | "loop" | "returned" | "raised":
                      \* _download_from_dashboard
    total,            \* buttons.count(): the panels detected
    max_panels,       \* the argument max_panels
    title_regex,      \* a title filter was given and compiled
    idx,              \* the panel index the loop is at
    descargados,      \* the counter of files saved
    results,          \* the list to return: the panel of each file saved
    attempts          \* history: [panel, outcome] of each iteration run

dlVars == <<dl_pc, total, max_panels, title_regex, idx, descargados, results,
            attempts>>

VARIABLES
    history,              \* st.session_state.history, index 0 first
    selected_months,      \* st.session_state.selected_months
    pending_months_value, \* st.session_state.pending_months_value
    hist_event,           \* the last event: "none" | "run" | "failed" | "clear"
    screen,               \* how the last script run ended: "none" |
                          \* "rendered" | "exception" | "NameError"
    generated,            \* history: the reports generated in the session
    since_clear           \* history: those generated after the last clearing

histVars == <<history, selected_months, pending_months_value, hist_event,
              screen, generated, since_clear>>

\* what the normalizer of dates.py leaves alone
notDates == <<diasVars, aliasVars, gridVars, dlVars, histVars>>

\* what the elapsed-days computations leave alone
notDias == <<pc, series, index, dias_ref_series, i, iso_vals, disp_vals,
             v, dias_ref, ret, out_iso, out_disp, site, df_dias, earlier,
             aliasVars, gridVars, dlVars, histVars>>

vars == <<datesVars, diasVars, aliasVars, gridVars, dlVars, histVars>>

----------------------------------------------------------------------------
(* Bounds of the model.                                                     *)

\* components a and b of a pattern text range over 0..MaxComp
MaxComp == 32
\* longest series of the multi-row inputs
MaxLen == 2

----------------------------------------------------------------------------
(* Characters and text.                                                     *)

DigitChars == <<"0", "1", "2", "3", "4", "5", "6", "7", "8", "9">>

Digits == {DigitChars[k] : k \in 1..10}

Whitespace == {" ", "\t"}

Separators == {"/", "-"}

DigitVal(c) == (CHOOSE k \in 1..10 : DigitChars[k] = c) - 1

\* int(text) for a text of decimal digits
RECURSIVE IntOf(_)
IntOf(t) ==
    IF t = <<>> THEN 0
    ELSE 10 * IntOf(SubSeq(t, 1, Len(t) - 1)) + DigitVal(t[Len(t)])

\* decimal digits of n >= 0, no padding
RECURSIVE DecimalOf(_)
DecimalOf(n) ==
    IF n < 10 THEN <<DigitChars[n + 1]>>
    ELSE DecimalOf(n \div 10) \o <<DigitChars[(n % 10) + 1]>>

\* format(n, "0<w>d") for n >= 0: zero-padded to at least w characters
RECURSIVE PadLeft(_, _)
PadLeft(t, w) == IF Len(t) >= w THEN t ELSE PadLeft(<<"0">> \o t, w)

FormatD(n, w) == PadLeft(DecimalOf(n), w)

\* str.strip()
RECURSIVE LStrip(_)
LStrip(t) ==
    IF t # <<>> /\ t[1] \in Whitespace THEN LStrip(Tail(t)) ELSE t

RECURSIVE RStrip(_)
RStrip(t) ==
    IF t # <<>> /\ t[Len(t)] \in Whitespace
    THEN RStrip(SubSeq(t, 1, Len(t) - 1)) ELSE t

Strip(t) == LStrip(RStrip(t))

AllDigits(t) == \A k \in 1..Len(t) : t[k] \in Digits

----------------------------------------------------------------------------
(* The proleptic Gregorian calendar of datetime.date.                       *)

None == <<>>

IsLeap(Y) == (Y % 4 = 0) /\ ((Y % 100 # 0) \/ (Y % 400 = 0))

DaysInMonth(Y, m) ==
    IF m = 2 THEN (IF IsLeap(Y) THEN 29 ELSE 28)
    ELSE IF m \in {4, 6, 9, 11} THEN 30 ELSE 31

DaysBeforeYear(Y) ==
    (Y - 1) * 365 + ((Y - 1) \div 4) - ((Y - 1) \div 100) + ((Y - 1) \div 400)

DaysBeforeMonth(Y, m) ==
    <<0, 31, 59, 90, 120, 151, 181, 212, 243, 273, 304, 334>>[m]
        + (IF m > 2 /\ IsLeap(Y) THEN 1 ELSE 0)

\* date.toordinal()
ToOrdinal(dt) == DaysBeforeYear(dt[1]) + DaysBeforeMonth(dt[1], dt[2]) + dt[3]

\* (x - y).days for two dates
DaysBetween(x, y) == ToOrdinal(x) - ToOrdinal(y)

\* a constructor that checks only the upper limit of the day
_try_make_date_no_lower(Y, m, d) ==
    IF /\ 1 <= Y /\ Y <= 9999
       /\ 1 <= m /\ m <= 12
       /\ d <= DaysInMonth(Y, m)
    THEN <<Y, m, d>>
    ELSE None

\* a constructor whose February always has 29 days
_try_make_date_no_leap(Y, m, d) ==
    IF /\ 1 <= Y /\ Y <= 9999
       /\ 1 <= m /\ m <= 12
       /\ 1 <= d /\ d <= (IF m = 2 THEN 29 ELSE DaysInMonth(Y, m))
    THEN <<Y, m, d>>
    ELSE None

\* date(Y, m, d) raises ValueError outside the calendar; the except turns it into None
_try_make_date(Y, m, d) ==
    IF /\ 1 <= Y /\ Y <= 9999
       /\ 1 <= m /\ m <= 12
       /\ 1 <= d /\ d <= DaysInMonth(Y, m)
    THEN <<Y, m, d>>
    ELSE None

----------------------------------------------------------------------------
(* The pattern _ddmmaa and the generic parser.                              *)

NoMatch == [ok |-> FALSE, g1 |-> <<>>, g2 |-> <<>>, g3 |-> <<>>]

\* ^\s*(\d{1,2})[/-](\d{1,2})[/-](\d{n})\s*$ for a year width n in yearLens:
\* the groups of the match, or NoMatch
MatchWith(s, yearLens) ==
    LET t == Strip(s)
        shapes == {sh \in (1..2) \X (1..2) \X yearLens :
                     /\ Len(t) = sh[1] + sh[2] + sh[3] + 2
                     /\ AllDigits(SubSeq(t, 1, sh[1]))
                     /\ t[sh[1] + 1] \in Separators
                     /\ AllDigits(SubSeq(t, sh[1] + 2, sh[1] + 1 + sh[2]))
                     /\ t[sh[1] + sh[2] + 2] \in Separators
                     /\ AllDigits(SubSeq(t, sh[1] + sh[2] + 3, Len(t)))}
    IN  IF shapes = {} THEN NoMatch
        ELSE LET sh == CHOOSE x \in shapes : TRUE
             IN  [ok |-> TRUE,
                  g1 |-> SubSeq(t, 1, sh[1]),
                  g2 |-> SubSeq(t, sh[1] + 2, sh[1] + 1 + sh[2]),
                  g3 |-> SubSeq(t, sh[1] + sh[2] + 3, Len(t))]

\* a pattern that also takes a 3 or 4 digit year
_ddmmaa_match_long_year(s) == MatchWith(s, 2..4)

\* _ddmmaa.match(s)
_ddmmaa_match(s) == MatchWith(s, {2})

\* pd.to_datetime(s, dayfirst=True, errors="coerce") on the texts the model
\* feeds it: <1-2 digits><sep><1-2 digits><sep><4 digits> is read day first,
\* month first when only that is a date; anything else is NaT (None here)
to_datetime(s) ==
    LET mo == MatchWith(s, {4})
    IN  IF ~mo.ok THEN None
        ELSE LET a == IntOf(mo.g1)
                 b == IntOf(mo.g2)
                 Y == IntOf(mo.g3)
             IN  IF _try_make_date(Y, b, a) # None THEN _try_make_date(Y, b, a)
                 ELSE _try_make_date(Y, a, b)

----------------------------------------------------------------------------
(* _split_ddmmaa.                                                           *)

\* a RawDateValue: missing (None / NaN / NaT), a structured timestamp, or text
Missing == [kind |-> "na", date |-> None, s |-> <<>>]
Timestamp(dt) == [kind |-> "ts", date |-> dt, s |-> <<>>]
Text(t) == [kind |-> "str", date |-> None, s |-> t]

\* a hint: None, NaN, or an integer
NoHint == [kind |-> "none", n |-> 0]
NaNHint == [kind |-> "nan", n |-> 0]
IntHint(n) == [kind |-> "int", n |-> n]

\* what _split_ddmmaa hands back: (Y, m, d, yy), (None,)*4, or an exception
Resolved(Y, m, d, yy) == [tag |-> "date", Y |-> Y, m |-> m, d |-> d, yy |-> yy]
Unresolvable == [tag |-> "none", Y |-> 0, m |-> 0, d |-> 0, yy |-> 0]
Raised == [tag |-> "raise", Y |-> 0, m |-> 0, d |-> 0, yy |-> 0]

Abs(n) == IF n < 0 THEN -n ELSE n

\* a two-digit year with a pivot: 50..99 read as 19xx
full_year_pivot(yy) == IF yy < 50 THEN 2000 + yy ELSE 1900 + yy

\* Y = 2000 + yy
full_year(yy) == 2000 + yy

\* return Y, dt.month, dt.day, yy   (AttributeError when dt is None)
return_date(Y, dt, yy) ==
    IF dt = None THEN Raised ELSE Resolved(Y, dt[2], dt[3], yy)

\* the single reading tried with month and day swapped
unambiguous_swapped(Y, m, d, yy) ==
    LET dt == _try_make_date(Y, d, m)
    IN  IF dt # None THEN return_date(Y, dt, yy) ELSE Unresolvable

\* dt = _try_make_date(Y, m, d); return (Y, dt.month, dt.day, yy) if dt else (None,)*4
unambiguous(Y, m, d, yy) ==
    LET dt == _try_make_date(Y, m, d)
    IN  IF dt # None THEN return_date(Y, dt, yy) ELSE Unresolvable

\* a test of line 30 that takes NaN for a hint: dias_ref is not None
hint_given_not_none(h) == h.kind # "none"

\* line 30: dias_ref is not None and pd.notna(dias_ref)
hint_given(h) == h.kind # "none" /\ h.kind # "nan"

\* the scoring with "<=": a tie goes to the month-first candidate
best_with_hint_tie_mmdd(dt_ddmm, dt_mmdd, h, today) ==
    LET best0 == IF dt_ddmm # None
                 THEN <<"ddmm", Abs(DaysBetween(today, dt_ddmm) - h.n), dt_ddmm>>
                 ELSE None
    IN  IF dt_mmdd # None
        THEN LET diff2 == Abs(DaysBetween(today, dt_mmdd) - h.n)
             IN  IF best0 = None \/ diff2 <= best0[2]
                 THEN <<"mmdd", diff2, dt_mmdd>> ELSE best0
        ELSE best0

\* the scoring without abs(): signed differences
best_with_hint_signed(dt_ddmm, dt_mmdd, h, today) ==
    LET best0 == IF dt_ddmm # None
                 THEN <<"ddmm", DaysBetween(today, dt_ddmm) - h.n, dt_ddmm>>
                 ELSE None
    IN  IF dt_mmdd # None
        THEN LET diff2 == DaysBetween(today, dt_mmdd) - h.n
             IN  IF best0 = None \/ diff2 < best0[2]
                 THEN <<"mmdd", diff2, dt_mmdd>> ELSE best0
        ELSE best0

\* lines 31-36: best = (name, diff, date) of the candidate closest to the hint
best_with_hint(dt_ddmm, dt_mmdd, h, today) ==
    LET best0 == IF dt_ddmm # None
                 THEN <<"ddmm", Abs(DaysBetween(today, dt_ddmm) - h.n), dt_ddmm>>
                 ELSE None
    IN  IF dt_mmdd # None
        THEN LET diff2 == Abs(DaysBetween(today, dt_mmdd) - h.n)
             IN  IF best0 = None \/ diff2 < best0[2]
                 THEN <<"mmdd", diff2, dt_mmdd>> ELSE best0
        ELSE best0

\* the no-hint choice with the threshold at today: >= 0
pick_no_hint_today(dt_ddmm, dt_mmdd, today) ==
    IF dt_ddmm # None
    THEN IF DaysBetween(today, dt_ddmm) >= 0 THEN dt_ddmm
         ELSE (IF dt_mmdd # None THEN dt_mmdd ELSE dt_ddmm)
    ELSE dt_mmdd

\* a no-hint choice that takes the month-first reading whenever it is a date
pick_no_hint_month_first(dt_ddmm, dt_mmdd, today) ==
    IF dt_mmdd # None THEN dt_mmdd ELSE dt_ddmm

\* lines 38-41: day first unless it lies more than a day ahead
pick_no_hint(dt_ddmm, dt_mmdd, today) ==
    IF dt_ddmm # None
    THEN IF DaysBetween(today, dt_ddmm) >= -1 THEN dt_ddmm
         ELSE (IF dt_mmdd # None THEN dt_mmdd ELSE dt_ddmm)
    ELSE dt_mmdd

\* lines 27-42 without the early return of line 29
ambiguous_unguarded(Y, a, b, yy, h, today) ==
    LET dt_ddmm == _try_make_date(Y, b, a)
        dt_mmdd == _try_make_date(Y, a, b)
    IN  IF hint_given(h)
        THEN LET best == best_with_hint(dt_ddmm, dt_mmdd, h, today)
             IN  IF best = None THEN Raised ELSE return_date(Y, best[3], yy)
        ELSE return_date(Y, pick_no_hint(dt_ddmm, dt_mmdd, today), yy)

\* lines 27-42: both readings are built and one is chosen
ambiguous(Y, a, b, yy, h, today) ==
    LET dt_ddmm == _try_make_date(Y, b, a)
        dt_mmdd == _try_make_date(Y, a, b)
    IN  IF dt_ddmm = None /\ dt_mmdd = None THEN Unresolvable
        ELSE IF hint_given(h)
        THEN LET best == best_with_hint(dt_ddmm, dt_mmdd, h, today)
             IN  IF best = None THEN Raised ELSE return_date(Y, best[3], yy)
        ELSE return_date(Y, pick_no_hint(dt_ddmm, dt_mmdd, today), yy)

\* a timestamp branch that returns the day in the month's place
from_timestamp_day_first(dt) == Resolved(dt[1], dt[3], dt[2], dt[1] % 100)

\* line 15: return val.year, val.month, val.day, val.year % 100
from_timestamp(dt) == Resolved(dt[1], dt[2], dt[3], dt[1] % 100)

\* _split_ddmmaa(val, dias_ref) with date.today() = today
_split_ddmmaa(val, h, today) ==
    IF val.kind = "na" THEN Unresolvable
    ELSE IF val.kind = "ts"
    THEN from_timestamp(val.date)
    ELSE LET s == Strip(val.s)
             mobj == _ddmmaa_match(s)
         IN  IF mobj.ok
             THEN LET a == IntOf(mobj.g1)
                      b == IntOf(mobj.g2)
                      yy == IntOf(mobj.g3)
                      Y == full_year(yy)
                  IN  IF a > 12 /\ b <= 12 THEN unambiguous(Y, b, a, yy)
                      ELSE IF a <= 12 /\ b > 12 THEN unambiguous(Y, a, b, yy)
                      ELSE ambiguous(Y, a, b, yy, h, today)
             ELSE LET t == to_datetime(s)
                  IN  IF t = None THEN Unresolvable
                      ELSE Resolved(t[1], t[2], t[3], t[1] % 100)

----------------------------------------------------------------------------
(* a_iso_y_display: one row of the loop, and the two returned Series.       *)

\* an ISO entry written without zero padding
iso_entry_unpadded(r) ==
    IF r.tag = "none" THEN <<>>
    ELSE DecimalOf(r.Y) \o <<"-">> \o DecimalOf(r.m) \o <<"-">> \o DecimalOf(r.d)

\* f"{Y:04d}-{m:02d}-{d:02d}", or "" when Y is None
iso_entry(r) ==
    IF r.tag = "none" THEN <<>>
    ELSE FormatD(r.Y, 4) \o <<"-">> \o FormatD(r.m, 2) \o <<"-">> \o FormatD(r.d, 2)

\* a display entry written month first
disp_entry_month_first(r) ==
    IF r.tag = "none" THEN <<>>
    ELSE FormatD(r.m, 2) \o <<"-">> \o FormatD(r.d, 2) \o <<"-">> \o FormatD(r.yy, 2)

\* f"{d:02d}-{m:02d}-{yy:02d}", or "" when Y is None
disp_entry(r) ==
    IF r.tag = "none" THEN <<>>
    ELSE FormatD(r.d, 2) \o <<"-">> \o FormatD(r.m, 2) \o <<"-">> \o FormatD(r.yy, 2)

\* a loop body that appends nothing for an unresolvable row
append_entry_skip_empty(vals, entry) ==
    IF entry = <<>> THEN vals ELSE Append(vals, entry)

\* iso_vals.append(...) / disp_vals.append(...)
append_entry(vals, entry) == Append(vals, entry)

\* dias_ref_series.iloc[i] if dias_ref_series is not None and i < len(dias_ref_series) else None
\* (k is the 0-based position)
\* a loop that hands the first row's hint to every row
hint_at_first(hs, k) ==
    IF hs.given /\ 0 < Len(hs.vals) THEN hs.vals[1] ELSE NoHint

\* a lookup that hands the last hint to the rows past the end of the hints
hint_at_clamped(hs, k) ==
    IF hs.given /\ 0 < Len(hs.vals)
    THEN hs.vals[IF k < Len(hs.vals) THEN k + 1 ELSE Len(hs.vals)]
    ELSE NoHint

\* line 50: dias_ref_series.iloc[i] if dias_ref_series is not None and
\* i < len(dias_ref_series) else None
hint_at(hs, k) ==
    IF hs.given /\ k < Len(hs.vals) THEN hs.vals[k + 1] ELSE NoHint

\* a loop body that writes the ISO text of the row back into the series
series_written_back(vs, k, r) ==
    IF r.tag = "raise" THEN vs ELSE [vs EXCEPT ![k] = Text(iso_entry(r))]

\* lines 49-56: the body reads series (enumerate) and assigns to its locals
\* and its two lists only; the caller's series is what it was
series_after_row(vs, k, r) == vs

\* the lines of ui_panels.py that call a_iso_y_display
RenderSites ==
    {"todas_crea", "todas_act", "nubes_crea", "nubes_act", "bajas_crea",
     "bajas_act"}

\* nothing remembered of an earlier call
NoObservation ==
    [seen |-> FALSE, val |-> Missing, hint |-> NoHint, iso |-> <<>>,
     disp |-> <<>>]

NoSeries == [index |-> <<>>, vals |-> <<>>]

----------------------------------------------------------------------------
(* The inputs the model draws.                                              *)

YYs == {23, 24, 25, 99}

Todays == {<<2024, 6, 1>>, <<2024, 2, 28>>}

\* "dd-mm-yy", zero padded
TextDash(a, b, yy) ==
    FormatD(a, 2) \o <<"-">> \o FormatD(b, 2) \o <<"-">> \o FormatD(yy, 2)

\* " d/m-yy \t": no padding, mixed separators, surrounding whitespace
TextSlash(a, b, yy) ==
    <<" ">> \o DecimalOf(a) \o <<"/">> \o DecimalOf(b) \o <<"-">>
        \o FormatD(yy, 2) \o <<" ", "\t">>

\* "dd/mm/YYYY"
TextLongYear(a, b, Y) ==
    FormatD(a, 2) \o <<"/">> \o FormatD(b, 2) \o <<"/">> \o FormatD(Y, 4)

DashTexts ==
    {Text(TextDash(a, b, yy)) : a \in 0..MaxComp, b \in 0..MaxComp, yy \in YYs}

SlashTexts ==
    {Text(TextSlash(a, b, yy)) : a \in {0, 3, 4, 12, 13, 31},
                                b \in {0, 3, 4, 12, 13, 31}, yy \in {5, 24}}

PatternTexts == DashTexts \cup SlashTexts

LongYearTexts ==
    {Text(TextLongYear(a, b, Y)) : a \in {3, 4, 13, 31}, b \in {3, 4, 13, 31},
                                  Y \in {2024, 2025}}

GarbageTexts ==
    {Text(<<"n", "o", "t", "-", "a", "-", "d", "a", "t", "e">>),
     Text(<<>>), Text(<<" ", " ">>), Text(<<"a", "b", "c">>)}

Timestamps == {Timestamp(<<2024, 2, 29>>), Timestamp(<<2025, 4, 3>>),
               Timestamp(<<1999, 12, 31>>)}

WideValues ==
    PatternTexts \cup LongYearTexts \cup GarbageTexts \cup Timestamps \cup {Missing}

\* the readings of a pattern text that are calendar dates
Candidates(val) ==
    LET mobj == _ddmmaa_match(val.s)
    IN  IF val.kind # "str" \/ ~mobj.ok THEN {}
        ELSE LET a == IntOf(mobj.g1)
                 b == IntOf(mobj.g2)
                 Y == full_year(IntOf(mobj.g3))
             IN  {_try_make_date(Y, b, a), _try_make_date(Y, a, b)} \ {None}

BaseHints == {-1000, 400, 100000}

\* integer hints for a value: far ones, and ones at, next to and midway
\* between the elapsed days of its readings
HintsFor(val, today) ==
    LET el == {DaysBetween(today, c) : c \in Candidates(val)}
    IN  BaseHints
        \cup {e + dl : e \in el, dl \in {-1, 0, 1}}
        \cup {(e1 + e2) \div 2 : e1 \in el, e2 \in el}

NotGiven == [given |-> FALSE, vals |-> <<>>]
Given(hs) == [given |-> TRUE, vals |-> hs]

\* hint series of a one-row call: none, a NaN, an integer
HintSeriesFor(val, today) ==
    {NotGiven, Given(<<NaNHint>>)}
    \cup {Given(<<IntHint(n)>>) : n \in HintsFor(val, today)}

NarrowValues ==
    {Missing, Timestamp(<<2025, 4, 3>>), Text(TextDash(3, 4, 24)),
     Text(TextDash(15, 20, 24))}

NarrowHints == {NaNHint, IntHint(400)}

SeqsUpTo(S, n) == UNION {[1..k -> S] : k \in 0..n}

\* labels of series.index: the default RangeIndex, or labels that are
\* neither sorted nor unique
IndexesOf(n) == {[k \in 1..n |-> k - 1], [k \in 1..n |-> 7 - (k \div 2)]}

NarrowSeries == SeqsUpTo(NarrowValues, MaxLen)

NarrowHintSeries ==
    {NotGiven} \cup {Given(h) : h \in SeqsUpTo(NarrowHints, MaxLen + 1)}

----------------------------------------------------------------------------
(* The state machine.                                                       *)

\* no elapsed-days computation has run
DiasIdle ==
    /\ dias_pc = "idle"
    /\ dias_site = "none"
    /\ dias_start = <<>>
    /\ dias_end = NotGiven
    /\ dias_index = <<>>
    /\ dias_out = NoSeries

\* a lookup that found no column: None
NoColumn == [found |-> FALSE, name |-> <<>>]
Found(c) == [found |-> TRUE, name |-> c]

\* a frame: its column names and, column by column, its cell values
Frame(cols, cells) == [columns |-> cols, cells |-> cells]
NoFrame == Frame(<<>>, <<>>)

\* no column lookup has run
AliasIdle ==
    /\ alias_pc = "idle"
    /\ alias_op = "none"
    /\ df_columns = <<>>
    /\ col_names = <<>>
    /\ colmap = {}
    /\ out_columns = <<>>
    /\ col_ret = NoColumn
    /\ df_passed = NoFrame
    /\ df_cells = <<>>
    /\ out_cells = <<>>
    /\ out_shared = FALSE

\* no grid has compared or sorted rows
GridIdle ==
    /\ grid_pc = "idle"
    /\ grid_col = "none"
    /\ grid_nodes = <<>>
    /\ cmp_ret = <<>>
    /\ grid_sorted = <<>>

\* no download has been started
DlIdle ==
    /\ dl_pc = "idle"
    /\ total = 0
    /\ max_panels = 0
    /\ title_regex = FALSE
    /\ idx = 0
    /\ descargados = 0
    /\ results = <<>>
    /\ attempts = <<>>

\* pending_months_value = None
NoneValue == [none |-> TRUE, vals |-> <<>>]
ListValue(l) == [none |-> FALSE, vals |-> l]

\* the session state after lines 64-78 of app.py, before the first script run
\* has got any further
HistIdle ==
    /\ history = <<>>
    /\ selected_months = <<>>
    /\ pending_months_value = NoneValue
    /\ hist_event = "none"
    /\ screen = "none"
    /\ generated = 0
    /\ since_clear = 0

\* a_iso_y_display has not been called
DatesIdle ==
    /\ pc = "idle"
    /\ series = <<>>
    /\ index = <<>>
    /\ dias_ref_series = NotGiven
    /\ i = 0
    /\ iso_vals = <<>>
    /\ disp_vals = <<>>
    /\ v = Missing
    /\ dias_ref = NoHint
    /\ ret = Unresolvable
    /\ out_iso = NoSeries
    /\ out_disp = NoSeries
    /\ site = "direct"
    /\ df_dias = NotGiven
    /\ earlier = NoObservation

Init ==
    /\ DiasIdle
    /\ AliasIdle
    /\ GridIdle
    /\ DlIdle
    /\ HistIdle
    /\ hoy \in Todays
    /\ pc = "idle"
    /\ series = <<>>
    /\ index = <<>>
    /\ dias_ref_series = NotGiven
    /\ i = 0
    /\ iso_vals = <<>>
    /\ disp_vals = <<>>
    /\ v = Missing
    /\ dias_ref = NoHint
    /\ ret = Unresolvable
    /\ out_iso = NoSeries
    /\ out_disp = NoSeries
    /\ site = "direct"
    /\ df_dias = NotGiven
    /\ earlier = NoObservation

\* a_iso_y_display(series, dias_ref_series) is entered with these arguments: line 48
Enter(vs, ix, hs) ==
    /\ series' = vs
    /\ index' = ix
    /\ dias_ref_series' = hs
    /\ pc' = "loop"
    /\ i' = 0
    /\ iso_vals' = <<>>
    /\ disp_vals' = <<>>
    /\ UNCHANGED <<hoy, v, dias_ref, ret, out_iso, out_disp>>

\* a call on a one-row series, over the wide value set
CallWide ==
    /\ pc = "idle"
    /\ \E val \in WideValues :
        \E hs \in HintSeriesFor(val, hoy) : Enter(<<val>>, <<0>>, hs)
    /\ UNCHANGED <<site, df_dias, earlier, notDates>>

\* a call on a short series of representative values
CallNarrow ==
    /\ pc = "idle"
    /\ \E vs \in NarrowSeries :
        \E ix \in IndexesOf(Len(vs)) :
            \E hs \in NarrowHintSeries : Enter(vs, ix, hs)
    /\ UNCHANGED <<site, df_dias, earlier, notDates>>

\* a call from a tab of ui_panels.py: the column is passed alone, whether or
\* not the frame has a "DIAS ABIERTA" column
CallRender ==
    /\ pc = "idle"
    /\ \E vs \in NarrowSeries :
        \E ix \in IndexesOf(Len(vs)) : Enter(vs, ix, NotGiven)
    /\ site' \in RenderSites
    /\ df_dias' \in {NotGiven}
                    \cup {Given(h) : h \in [1..Len(series') -> NarrowHints]}
    /\ UNCHANGED <<earlier, notDates>>

\* the display text a call returned is read again: the 'DD-MM-YY' column a
\* report carries (reporte_general.py line 157) is the input of the next
\* call, without hints (ui_panels.py line 208); one row of the finished call
\* is remembered with the entries it got
ReadBack ==
    /\ pc = "done"
    /\ site = "direct"
    /\ ~earlier.seen
    /\ dias_ref_series = NotGiven
    /\ \E k \in 1..Len(series) :
        /\ earlier' = [seen |-> TRUE, val |-> series[k], hint |-> NoHint,
                       iso |-> out_iso.vals[k], disp |-> out_disp.vals[k]]
        /\ Enter(<<Text(out_disp.vals[k])>>, <<0>>, NotGiven)
    /\ site' = "readback"
    /\ UNCHANGED <<df_dias, notDates>>

\* the caller keeps what a call returned (ui_panels.py lines 209-210); one
\* row of the finished call is remembered with the entries it got, and the
\* locals of the finished call are gone
Keep ==
    /\ pc = "done"
    /\ series \in NarrowSeries
    /\ dias_ref_series \in NarrowHintSeries
    /\ \E k \in 1..Len(series) :
        earlier' = [seen |-> TRUE, val |-> series[k],
                    hint |-> IF dias_ref_series.given
                                /\ k <= Len(dias_ref_series.vals)
                             THEN dias_ref_series.vals[k] ELSE NoHint,
                    iso |-> out_iso.vals[k], disp |-> out_disp.vals[k]]
    /\ pc' = "kept"
    /\ series' = <<>> /\ index' = <<>> /\ dias_ref_series' = NotGiven
    /\ i' = 0 /\ iso_vals' = <<>> /\ disp_vals' = <<>>
    /\ v' = Missing /\ dias_ref' = NoHint /\ ret' = Unresolvable
    /\ out_iso' = NoSeries /\ out_disp' = NoSeries
    /\ site' = "direct" /\ df_dias' = NotGiven
    /\ UNCHANGED <<hoy, notDates>>

\* the next call of the same process (ui_panels.py line 212 after line 208),
\* without hints or with one hint per row, on rows that hold the remembered
\* value or a missing one
CallAgain ==
    /\ pc = "kept"
    /\ \E vs \in SeqsUpTo({earlier.val, Missing}, MaxLen) :
        \E ix \in IndexesOf(Len(vs)) :
            \E hs \in {NotGiven}
                       \cup {Given(h) : h \in [1..Len(vs) -> NarrowHints]} :
                Enter(vs, ix, hs)
    /\ UNCHANGED <<site, df_dias, earlier, notDates>>

\* one iteration of the for loop: lines 49-56
LoopStep ==
    /\ pc = "loop"
    /\ i < Len(series)
    /\ LET val == series[i + 1]
           h == hint_at(dias_ref_series, i)
           r == _split_ddmmaa(val, h, hoy)
       IN  /\ v' = val
           /\ dias_ref' = h
           /\ ret' = r
           /\ IF r.tag = "raise"
              THEN /\ pc' = "raised"
                   /\ UNCHANGED <<i, iso_vals, disp_vals>>
              ELSE /\ pc' = "loop"
                   /\ i' = i + 1
                   /\ iso_vals' = append_entry(iso_vals, iso_entry(r))
                   /\ disp_vals' = append_entry(disp_vals, disp_entry(r))
           /\ series' = series_after_row(series, i + 1, r)
    /\ UNCHANGED <<hoy, index, dias_ref_series, out_iso, out_disp,
                   site, df_dias, earlier, notDates>>

\* line 57: pd.Series(list, index=series.index) raises ValueError when the
\* list and the index differ in length
Return ==
    /\ pc = "loop"
    /\ i = Len(series)
    /\ IF Len(iso_vals) = Len(index) /\ Len(disp_vals) = Len(index)
       THEN /\ pc' = "done"
            /\ out_iso' = [index |-> index, vals |-> iso_vals]
            /\ out_disp' = [index |-> index, vals |-> disp_vals]
       ELSE /\ pc' = "raised"
            /\ UNCHANGED <<out_iso, out_disp>>
    /\ UNCHANGED <<hoy, series, index, dias_ref_series, i, iso_vals, disp_vals,
                   v, dias_ref, ret, site, df_dias, earlier, notDates>>

Next ==
    \/ CallWide \/ CallNarrow \/ CallRender \/ Keep \/ CallAgain
    \/ LoopStep \/ Return

Spec == Init /\ [][Next]_vars

\* the calls of Spec, and the calls that read a returned display text again
NextRoundTrip == Next \/ ReadBack

SpecRoundTrip == Init /\ [][NextRoundTrip]_vars

----------------------------------------------------------------------------
(* Vocabulary of the properties.                                            *)

\* the loop has just resolved a row: v, dias_ref and ret describe it, and its
\* entries are iso_vals[i] and disp_vals[i]
RowResolved == pc = "loop" /\ i > 0

\* the value matches <1-2 digits><sep><1-2 digits><sep><2 digits>
IsPattern(val) == val.kind = "str" /\ _ddmmaa_match(val.s).ok

PatA(val) == IntOf(_ddmmaa_match(val.s).g1)
PatB(val) == IntOf(_ddmmaa_match(val.s).g2)
PatYY(val) == IntOf(_ddmmaa_match(val.s).g3)

\* both components can be a month: the two readings are both dates
IsAmbiguous(val) ==
    IsPattern(val) /\ PatA(val) \in 1..12 /\ PatB(val) \in 1..12

\* the Gregorian calendar, stated on its own
LeapYear(Y) == Y % 4 = 0 /\ (Y % 100 # 0 \/ Y % 400 = 0)

MonthLength(Y, m) ==
    CASE m \in {1, 3, 5, 7, 8, 10, 12} -> 31
      [] m \in {4, 6, 9, 11} -> 30
      [] OTHER -> IF LeapYear(Y) THEN 29 ELSE 28

IsGregorian(Y, m, d) == m \in 1..12 /\ d >= 1 /\ d <= MonthLength(Y, m)

\* the two readings of a pattern value as results
DayFirst(val) == Resolved(2000 + PatYY(val), PatB(val), PatA(val), PatYY(val))
MonthFirst(val) == Resolved(2000 + PatYY(val), PatA(val), PatB(val), PatYY(val))

\* (today - reading).days
Elapsed(today, r) == DaysBetween(today, <<r.Y, r.m, r.d>>)

----------------------------------------------------------------------------
(* C1: with an integer hint h, an ambiguous value (both components in       *)
(* 1..12) resolves to the reading that minimises |(today - c).days - h|;    *)
(* on equal differences to the day-first reading.  today = 2024-06-01,      *)
(* '01-02-23', h = 400 gives 2023-02-01.                                    *)
C1_HintPicksClosest ==
    /\ (RowResolved /\ IsAmbiguous(v) /\ dias_ref.kind = "int") =>
          LET d1 == Abs(Elapsed(hoy, DayFirst(v)) - dias_ref.n)
              d2 == Abs(Elapsed(hoy, MonthFirst(v)) - dias_ref.n)
          IN  ret = IF d2 < d1 THEN MonthFirst(v) ELSE DayFirst(v)
    /\ (RowResolved /\ hoy = <<2024, 6, 1>> /\ v = Text(TextDash(1, 2, 23))
            /\ dias_ref = IntHint(400)) => ret = Resolved(2023, 2, 1, 23)

\* a tie between two different readings went to the day-first one
C1_Witness ==
    /\ RowResolved /\ IsAmbiguous(v) /\ dias_ref.kind = "int"
    /\ PatA(v) # PatB(v)
    /\ Abs(Elapsed(hoy, DayFirst(v)) - dias_ref.n)
         = Abs(Elapsed(hoy, MonthFirst(v)) - dias_ref.n)
    /\ ret = DayFirst(v)

(* C2: without a hint, an ambiguous value resolves to the day-first reading *)
(* when (today - day_first).days >= -1, otherwise to the month-first        *)
(* reading if that is a date and to the day-first reading if it is not.     *)
C2_NoHintDefault ==
    (RowResolved /\ IsAmbiguous(v) /\ dias_ref.kind = "none") =>
        ret = IF Elapsed(hoy, DayFirst(v)) >= -1 THEN DayFirst(v)
              ELSE IF IsGregorian(MonthFirst(v).Y, MonthFirst(v).m, MonthFirst(v).d)
                   THEN MonthFirst(v)
                   ELSE DayFirst(v)

\* the day-first reading lies exactly one day ahead and is kept
C2_Witness ==
    /\ RowResolved /\ IsAmbiguous(v) /\ dias_ref.kind = "none"
    /\ PatA(v) # PatB(v)
    /\ Elapsed(hoy, DayFirst(v)) = -1
    /\ ret = DayFirst(v)

(* C3: a > 12 and b <= 12 gives exactly day=a, month=b, year=2000+yy when   *)
(* that is a date and Unresolvable otherwise; a <= 12 and b > 12 gives      *)
(* exactly day=b, month=a; the other reading is never tried ('31-04-25' and *)
(* '04-31-25' are Unresolvable).                                            *)
C3_OneReadingOnly ==
    /\ (RowResolved /\ IsPattern(v) /\ PatA(v) > 12 /\ PatB(v) <= 12) =>
          ret = IF IsGregorian(2000 + PatYY(v), PatB(v), PatA(v))
                THEN DayFirst(v) ELSE Unresolvable
    /\ (RowResolved /\ IsPattern(v) /\ PatA(v) <= 12 /\ PatB(v) > 12) =>
          ret = IF IsGregorian(2000 + PatYY(v), PatA(v), PatB(v))
                THEN MonthFirst(v) ELSE Unresolvable
    /\ (RowResolved /\ v \in {Text(TextDash(31, 4, 25)), Text(TextDash(4, 31, 25))}) =>
          ret = Unresolvable

\* '04-31-25': month first by its components, not a date, left unresolved
C3_Witness ==
    /\ RowResolved /\ v = Text(TextDash(4, 31, 25))
    /\ dias_ref.kind = "int"
    /\ ret = Unresolvable

\* values whose result the hint cannot touch
HintFree(val) ==
    \/ val \in Timestamps \cup {Missing} \cup LongYearTexts \cup GarbageTexts
    \/ /\ val \in PatternTexts
       /\ IsPattern(val)
       /\ (PatA(val) > 12) # (PatB(val) > 12)

(* C4: for a timestamp, a missing value, a text that does not match the     *)
(* 2-digit-year pattern, or a pattern text with one component > 12, the     *)
(* result under the same today is the same for every hint: it equals the    *)
(* result of the call without a hint.                                       *)
C4_HintIndependent ==
    (RowResolved /\ HintFree(v)) => ret = _split_ddmmaa(v, NoHint, hoy)

\* a 4-digit-year text resolved under an integer hint
C4_Witness ==
    /\ RowResolved /\ v \in LongYearTexts
    /\ dias_ref.kind = "int"
    /\ ret.tag = "date"

(* C5: for an ambiguous value with a # b, the hint                          *)
(* h = (today - month_first).days makes the month-first reading the result, *)
(* also where the call without a hint returns the day-first reading.        *)
C5_ExactHintPicksMonthFirst ==
    (RowResolved /\ IsAmbiguous(v) /\ PatA(v) # PatB(v)
        /\ dias_ref = IntHint(Elapsed(hoy, MonthFirst(v)))) => ret = MonthFirst(v)

\* the exact hint overrode a day-first default
C5_Witness ==
    /\ RowResolved /\ IsAmbiguous(v) /\ PatA(v) # PatB(v)
    /\ dias_ref = IntHint(Elapsed(hoy, MonthFirst(v)))
    /\ Elapsed(hoy, DayFirst(v)) >= -1
    /\ Elapsed(hoy, DayFirst(v)) < Elapsed(hoy, MonthFirst(v))
    /\ ret = MonthFirst(v)

(* C6: a pattern value neither reading of which is a date is Unresolvable   *)
(* with or without a hint (both components > 12, a zero component,          *)
(* components > 31), and its row is '' in both outputs.                     *)
C6_NoValidReading ==
    (RowResolved /\ IsPattern(v)
        /\ ~IsGregorian(2000 + PatYY(v), PatB(v), PatA(v))
        /\ ~IsGregorian(2000 + PatYY(v), PatA(v), PatB(v))) =>
            /\ ret = Unresolvable
            /\ iso_vals[i] = <<>>
            /\ disp_vals[i] = <<>>

\* '00-05-25' under an integer hint
C6_Witness ==
    /\ RowResolved /\ v = Text(TextDash(0, 5, 25))
    /\ dias_ref.kind = "int"
    /\ ret = Unresolvable
    /\ iso_vals[i] = <<>> /\ disp_vals[i] = <<>>

\* the outputs of a finished call, row by row, as the resolver decides them
RowsAligned ==
    \A k \in 1..Len(series) :
        LET r == _split_ddmmaa(series[k], hint_at(dias_ref_series, k - 1), hoy)
        IN  /\ out_iso.vals[k] = iso_entry(r)
            /\ out_disp.vals[k] = disp_entry(r)

(* C7: for every series and every optional hints sequence of any length,    *)
(* a_iso_y_display returns two sequences exactly as long as the input, with *)
(* the input's index, whose entry at each position is the result for the    *)
(* input value at that position: no row dropped, duplicated or reordered.   *)
C7_LengthAndAlignment ==
    /\ pc # "raised"
    /\ pc = "loop" =>
          /\ i <= Len(series)
          /\ Len(iso_vals) = i
          /\ Len(disp_vals) = i
    /\ pc = "done" =>
          /\ Len(out_iso.vals) = Len(series)
          /\ Len(out_disp.vals) = Len(series)
          /\ out_iso.index = index
          /\ out_disp.index = index
          /\ RowsAligned

\* a finished call on a series of the greatest length that mixes empty and
\* dated rows, with an index that is not the default and a hints sequence of
\* another length
C7_Witness ==
    /\ pc = "done"
    /\ Len(series) = MaxLen
    /\ index # [k \in 1..Len(series) |-> k - 1]
    /\ dias_ref_series.given
    /\ Len(dias_ref_series.vals) # Len(series)
    /\ \E k \in 1..Len(series) : out_iso.vals[k] = <<>>
    /\ \E k \in 1..Len(series) : out_iso.vals[k] # <<>>

(* C8: resolution never raises and never halts a batch: for every value     *)
(* and every hint _split_ddmmaa returns a date or Unresolvable, and         *)
(* a_iso_y_display goes on to the rows after an unresolvable one and        *)
(* returns: while in the loop, the next row or the return is always open.   *)
C8_NeverRaises ==
    /\ ret.tag \in {"date", "none"}
    /\ pc # "raised"
    /\ pc = "loop" => (i < Len(series) \/ i = Len(series))

\* a finished call in which a text row was unresolvable and the next row
\* was resolved
C8_Witness ==
    /\ pc = "done"
    /\ \E k \in 1..(Len(series) - 1) :
          /\ series[k].kind = "str"
          /\ out_iso.vals[k] = <<>>
          /\ out_iso.vals[k + 1] # <<>>

(* C9: every result (Y, m, d) that is not Unresolvable is a Gregorian date: *)
(* 1 <= m <= 12 and 1 <= d <= the length of month m in year Y, leap years   *)
(* included ('29-02-24' is 2024-02-29; '29-02-23' and '31-04-25' are        *)
(* Unresolvable).                                                           *)
C9_ValidGregorian ==
    /\ (RowResolved /\ ret.tag = "date") => IsGregorian(ret.Y, ret.m, ret.d)
    /\ (RowResolved /\ v = Text(TextDash(29, 2, 24))) => ret = Resolved(2024, 2, 29, 24)
    /\ (RowResolved /\ v \in {Text(TextDash(29, 2, 23)), Text(TextDash(31, 4, 25))}) =>
          ret = Unresolvable

\* the leap day of 2024 resolved
C9_Witness ==
    /\ RowResolved /\ v = Text(TextDash(29, 2, 24))
    /\ ret = Resolved(2024, 2, 29, 24)
    /\ iso_vals[i] = <<"2", "0", "2", "4", "-", "0", "2", "-", "2", "9">>

(* C10: a pattern value with 2-digit year yy that resolves has the year     *)
(* 2000 + yy, in 2000..2099, and the 2-digit year of its display entry is   *)
(* yy, whatever today and the hint are.                                     *)
C10_YearIs2000PlusYY ==
    (RowResolved /\ IsPattern(v) /\ ret.tag = "date") =>
        /\ ret.Y = 2000 + PatYY(v)
        /\ ret.Y \in 2000..2099
        /\ ret.yy = PatYY(v)
        /\ Len(disp_vals[i]) = 8
        /\ IntOf(SubSeq(disp_vals[i], 7, 8)) = PatYY(v)
        /\ IntOf(SubSeq(iso_vals[i], 1, 4)) = 2000 + PatYY(v)

\* a value of year 99 resolved to 2099 under an integer hint
C10_Witness ==
    /\ RowResolved /\ IsPattern(v) /\ PatYY(v) = 99
    /\ dias_ref.kind = "int"
    /\ ret.tag = "date" /\ ret.Y = 2099
    /\ SubSeq(disp_vals[i], 7, 8) = <<"9", "9">>

(* C11: for a structured timestamp, with or without a hint and for every   *)
(* today, _split_ddmmaa returns the timestamp's own year, month and day,    *)
(* with the 2-digit year equal to year mod 100.                             *)
C11_TimestampIdentity ==
    (RowResolved /\ v.kind = "ts") =>
        /\ ret.tag = "date"
        /\ <<ret.Y, ret.m, ret.d>> = v.date
        /\ ret.yy \in 0..99
        /\ (ret.Y - ret.yy) % 100 = 0

\* the timestamp 1999-12-31 resolved under an integer hint
C11_Witness ==
    /\ RowResolved /\ v = Timestamp(<<1999, 12, 31>>)
    /\ dias_ref.kind = "int"
    /\ ret = Resolved(1999, 12, 31, 99)

\* the text is "DDDD-DD-DD" / "DD-DD-DD": digits with "-" at the given places
IsDashed(t, n, dashes) ==
    /\ Len(t) = n
    /\ \A k \in 1..n : IF k \in dashes THEN t[k] = "-" ELSE t[k] \in Digits

(* C12: at every position a_iso_y_display emits ('', '') exactly when the   *)
(* resolver result is Unresolvable (missing values included), and otherwise *)
(* the zero-padded 'YYYY-MM-DD' and 'DD-MM-YY' of the same resolved date,   *)
(* the display YY being the ISO year mod 100; never one empty and one not.  *)
C12_EntriesFollowResult ==
    RowResolved =>
        /\ (ret = Unresolvable) <=> (iso_vals[i] = <<>>)
        /\ (iso_vals[i] = <<>>) <=> (disp_vals[i] = <<>>)
        /\ v = Missing => ret = Unresolvable
        /\ ret.tag = "date" =>
              /\ IsDashed(iso_vals[i], 10, {5, 8})
              /\ IsDashed(disp_vals[i], 8, {3, 6})
              /\ IntOf(SubSeq(iso_vals[i], 1, 4)) = ret.Y
              /\ IntOf(SubSeq(iso_vals[i], 6, 7)) = ret.m
              /\ IntOf(SubSeq(iso_vals[i], 9, 10)) = ret.d
              /\ IntOf(SubSeq(disp_vals[i], 1, 2)) = ret.d
              /\ IntOf(SubSeq(disp_vals[i], 4, 5)) = ret.m
              /\ IntOf(SubSeq(disp_vals[i], 7, 8)) = ret.Y % 100

\* a date with one-digit day and month, padded in both entries, in a series
\* that also holds a missing value with two empty entries
C12_Witness ==
    /\ pc = "done" /\ Len(series) = 2
    /\ series[1] = Missing
    /\ out_iso.vals[1] = <<>> /\ out_disp.vals[1] = <<>>
    /\ out_iso.vals[2] = <<"2", "0", "2", "5", "-", "0", "4", "-", "0", "3">>
    /\ out_disp.vals[2] = <<"0", "3", "-", "0", "4", "-", "2", "5">>

\* hints[k] or None, read off the argument of the call (k counts from 1)
OwnHint(k) ==
    IF dias_ref_series.given /\ k <= Len(dias_ref_series.vals)
    THEN dias_ref_series.vals[k] ELSE NoHint

\* the two entries a call on the single row (val, h) gets today
AloneIso(val, h) == iso_entry(_split_ddmmaa(val, h, hoy))
AloneDisp(val, h) == disp_entry(_split_ddmmaa(val, h, hoy))

(* C18: when a_iso_y_display returns, the entries at every position are     *)
(* those of its own (value, hint or None, today) alone: two rows of one     *)
(* call with the same value and hint get the same entries wherever they     *)
(* stand and whatever the other rows are, and a row gets the entries that   *)
(* the same value and hint got in an earlier call.                          *)
C18_RowIndependence ==
    pc = "done" =>
        \A k \in 1..Len(series) :
            /\ out_iso.vals[k] = AloneIso(series[k], OwnHint(k))
            /\ out_disp.vals[k] = AloneDisp(series[k], OwnHint(k))
            /\ \A j \in 1..Len(series) :
                  (series[j] = series[k] /\ OwnHint(j) = OwnHint(k)) =>
                      /\ out_iso.vals[j] = out_iso.vals[k]
                      /\ out_disp.vals[j] = out_disp.vals[k]
            /\ (earlier.seen /\ earlier.val = series[k]
                    /\ earlier.hint = OwnHint(k)) =>
                      /\ out_iso.vals[k] = earlier.iso
                      /\ out_disp.vals[k] = earlier.disp

\* the ambiguous "03-04-24" with hint 400 stands second, after a row with
\* another value and no usable hint, and was first in an earlier call, with
\* the same non-empty entries
C18_Witness ==
    /\ pc = "done" /\ Len(series) = 2
    /\ series[1] # series[2] /\ OwnHint(1) = NaNHint
    /\ series[2] = Text(TextDash(3, 4, 24)) /\ OwnHint(2) = IntHint(400)
    /\ earlier.seen /\ earlier.val = series[2] /\ earlier.hint = OwnHint(2)
    /\ earlier.iso # <<>> /\ out_iso.vals[2] = earlier.iso
    /\ out_iso.vals[2] # AloneIso(series[2], NaNHint)

(* C19: in the tabs of ui_panels.py, when the frame carries an elapsed-days *)
(* column and a row has an ambiguous date with an integer figure there,     *)
(* a_iso_y_display is called with that column as its hints. The code        *)
(* passes the date column alone, so this does not hold.                     *)
C19_HintSuppliedByPipeline ==
    (site \in RenderSites /\ pc = "loop" /\ df_dias.given) =>
        \A k \in 1..Len(series) :
            (IsAmbiguous(series[k]) /\ df_dias.vals[k].kind = "int") =>
                OwnHint(k) = df_dias.vals[k]

----------------------------------------------------------------------------
(* Elapsed days: dias_habiles_entre and the per-row computations of          *)
(* ui_panels.py, and the "DIAS ABIERTA" column of reporte_general.py.        *)

\* March days of the window of dates are 1..MaxMarch
MaxMarch == 8

\* an entry of a nullable integer column: <NA>, NaN or None
NullDays == [kind |-> "null", n |-> 0]
Days(n) == [kind |-> "int", n |-> n]

\* pd.to_datetime(column, errors="coerce") on one entry of a column of
\* 'YYYY-MM-DD' strings: '' and text that is no date become NaT
to_datetime_iso(t) ==
    IF /\ Len(t) = 10
       /\ t[5] = "-" /\ t[8] = "-"
       /\ AllDigits(SubSeq(t, 1, 4))
       /\ AllDigits(SubSeq(t, 6, 7))
       /\ AllDigits(SubSeq(t, 9, 10))
    THEN _try_make_date(IntOf(SubSeq(t, 1, 4)), IntOf(SubSeq(t, 6, 7)),
                        IntOf(SubSeq(t, 9, 10)))
    ELSE None

\* .astype("datetime64[D]"): days since 1970-01-01
datetime64_D(dt) == ToOrdinal(dt) - ToOrdinal(<<1970, 1, 1>>)

\* a week mask that also counts Saturday
weekmask_six_days == <<TRUE, TRUE, TRUE, TRUE, TRUE, TRUE, FALSE>>

\* numpy's default weekmask "1111100", Monday first
weekmask == <<TRUE, TRUE, TRUE, TRUE, TRUE, FALSE, FALSE>>

busdays_in_weekmask == Cardinality({k \in 1..7 : weekmask[k]})

\* numpy get_day_of_week: 1970-01-05 is a Monday, Monday is 0
get_day_of_week(date) == (date - 4) % 7

\* numpy's loop over the remaining partial week
RECURSIVE partial_week(_, _, _)
partial_week(date_begin, date_end, day_of_week) ==
    IF date_begin >= date_end THEN 0
    ELSE (IF weekmask[day_of_week + 1] THEN 1 ELSE 0)
         + partial_week(date_begin + 1, date_end, (day_of_week + 1) % 7)

\* numpy's count for date_begin <= date_end: whole weeks, then the rest
busday_count_forward(date_begin, date_end) ==
    LET whole_weeks ==
            IF date_end - date_begin > 7 THEN (date_end - date_begin) \div 7
            ELSE 0
    IN  whole_weeks * busdays_in_weekmask
        + partial_week(date_begin + whole_weeks * 7, date_end,
                       get_day_of_week(date_begin))

\* np.busday_count(begin, end): what the installed numpy can return. For
\* begin > end the dates are swapped and the count negated; numpy 1.25 and
\* later also shift both by one day so that the original end is left out
busday_count(date_begin, date_end) ==
    IF date_begin = date_end THEN {0}
    ELSE IF date_begin < date_end
    THEN {busday_count_forward(date_begin, date_end)}
    ELSE {0 - busday_count_forward(date_end, date_begin),
          0 - busday_count_forward(date_end + 1, date_begin + 1)}

\* all columns whose k-th entry is drawn from the k-th set
RECURSIVE ColumnsOf(_)
ColumnsOf(choices) ==
    IF choices = <<>> THEN {<<>>}
    ELSE {<<x>> \o rest : x \in Head(choices), rest \in ColumnsOf(Tail(choices))}

\* lines 39-43: fc, and fa (all NaT without an end column)
fc_of(creacion) == [k \in 1..Len(creacion) |-> to_datetime_iso(creacion[k].s)]

fa_of(creacion, activacion) ==
    [k \in 1..Len(creacion) |->
        IF activacion.given THEN to_datetime_iso(activacion.vals[k].s) ELSE None]

\* line 46: end = fa.fillna(hoy)
end_of(creacion, activacion, today) ==
    [k \in 1..Len(creacion) |->
        IF fa_of(creacion, activacion)[k] = None THEN today
        ELSE fa_of(creacion, activacion)[k]]

\* lines 51-55: NaN where fc is NaT, the business-day count elsewhere
dias_habiles_columns(creacion, activacion, today) ==
    ColumnsOf([k \in 1..Len(creacion) |->
        IF fc_of(creacion)[k] = None THEN {NullDays}
        ELSE {Days(n) : n \in busday_count(
                  datetime64_D(fc_of(creacion)[k]),
                  datetime64_D(end_of(creacion, activacion, today)[k]))}])

\* lines 427-432 and 639-643: busday_count(start.date(), hoy.date()), or None
dias_hasta_hoy_columns(creacion, today) ==
    ColumnsOf([k \in 1..Len(creacion) |->
        IF fc_of(creacion)[k] = None THEN {NullDays}
        ELSE {Days(n) : n \in busday_count(datetime64_D(fc_of(creacion)[k]),
                                           datetime64_D(today))}])

\* reporte_general.py line 64: (hoy - fc).dt.days, NaN for NaT
dias_reporte_column(creacion, today) ==
    [k \in 1..Len(creacion) |->
        IF creacion[k].kind = "ts" THEN Days(DaysBetween(today, creacion[k].date))
        ELSE NullDays]

\* the window of dates: 2024-02-22 (a Thursday) .. 2024-03-MaxMarch
DiasDates ==
    {<<2024, 2, d>> : d \in 22..29} \cup {<<2024, 3, d>> : d \in 1..MaxMarch}

\* today: a Monday and a Saturday
DiasTodays == {<<2024, 3, 4>>, <<2024, 3, 2>>}

\* the 'YYYY-MM-DD' entry a_iso_y_display writes for a date
IsoOf(dt) == Text(iso_entry(from_timestamp(dt)))

\* entries of an ISO column: a date or ''; an end column may also hold text
\* that is no date
StartEntries == {IsoOf(dt) : dt \in DiasDates} \cup {Text(<<>>)}
EndEntries == StartEntries \cup {Text(<<"x">>)}

NarrowStartEntries ==
    {Text(<<>>), IsoOf(<<2024, 2, 26>>), IsoOf(<<2024, 3, 6>>)}
NarrowEndEntries == {Text(<<>>), Text(<<"x">>), IsoOf(<<2024, 3, 1>>)}

\* the columns of a frame: one row over the window, or MaxLen rows of a few
\* entries; the end column, when there is one, has the rows of the start
StartColumns ==
    {<<e>> : e \in StartEntries} \cup SeqsUpTo(NarrowStartEntries, MaxLen)

EndColumns(creacion) ==
    {NotGiven}
    \cup (IF Len(creacion) = 1
          THEN {Given(<<e>>) : e \in EndEntries}
          ELSE {Given(c) : c \in [1..Len(creacion) -> NarrowEndEntries]})

\* the datetime column of reporte_general.py after _parse_mixed_datetime
ParsedColumns ==
    {<<e>> : e \in {Timestamp(dt) : dt \in DiasDates}}
    \cup SeqsUpTo({Missing, Timestamp(<<2024, 2, 26>>),
                   Timestamp(<<2024, 3, 6>>)}, MaxLen)

InitDias ==
    /\ DatesIdle
    /\ AliasIdle
    /\ GridIdle
    /\ DlIdle
    /\ HistIdle
    /\ DiasIdle
    /\ hoy \in DiasTodays

\* an elapsed-days computation starts on these columns
DiasEnter(where, creacion, activacion, ix) ==
    /\ dias_site' = where
    /\ dias_start' = creacion
    /\ dias_end' = activacion
    /\ dias_index' = ix
    /\ UNCHANGED <<hoy, notDias>>

\* dias_habiles_entre(creacion_iso, activacion_iso): ui_panels.py lines 32-55.
\* Line 48 casts fc.dt.date.values, an object array that holds pd.NaT where
\* fc is NaT, to datetime64[D]: numpy either takes the NaT or raises
\* TypeError on its float year, depending on the build.
dias_habiles_entre ==
    /\ dias_pc = "idle"
    /\ \E creacion \in StartColumns :
        \E activacion \in EndColumns(creacion) :
            \E ix \in IndexesOf(Len(creacion)) :
                /\ DiasEnter("dias_habiles_entre", creacion, activacion, ix)
                /\ \/ /\ \E k \in 1..Len(creacion) : fc_of(creacion)[k] = None
                      /\ dias_pc' = "raised"
                      /\ dias_out' = NoSeries
                   \/ /\ dias_pc' = "done"
                      /\ \E col \in dias_habiles_columns(creacion, activacion, hoy) :
                            dias_out' = [index |-> ix, vals |-> col]

\* render_tab_nubes_terceros lines 425-432, render_tab_bajas lines 637-643
dias_hasta_hoy(where) ==
    /\ dias_pc = "idle"
    /\ \E creacion \in StartColumns :
        \E ix \in IndexesOf(Len(creacion)) :
            /\ DiasEnter(where, creacion, NotGiven, ix)
            /\ dias_pc' = "done"
            /\ \E col \in dias_hasta_hoy_columns(creacion, hoy) :
                  dias_out' = [index |-> ix, vals |-> col]

render_tab_nubes_terceros == dias_hasta_hoy("render_tab_nubes_terceros")

render_tab_bajas == dias_hasta_hoy("render_tab_bajas")

\* procesar_reporte_general lines 60-66
procesar_reporte_general ==
    /\ dias_pc = "idle"
    /\ \E creacion \in ParsedColumns :
        \E ix \in IndexesOf(Len(creacion)) :
            /\ DiasEnter("procesar_reporte_general", creacion, NotGiven, ix)
            /\ dias_pc' = "done"
            /\ dias_out' = [index |-> ix,
                            vals |-> dias_reporte_column(creacion, hoy)]

NextDias ==
    \/ dias_habiles_entre
    \/ render_tab_nubes_terceros
    \/ render_tab_bajas
    \/ procesar_reporte_general

SpecDias == InitDias /\ [][NextDias]_vars

----------------------------------------------------------------------------
(* Vocabulary of the elapsed-days properties.                                *)

\* the calendar date an entry of a date column stands for, None if it is none
DateOfEntry(e) ==
    IF e.kind = "ts" THEN e.date
    ELSE IF \E dt \in DiasDates : IsoOf(dt) = e
    THEN CHOOSE dt \in DiasDates : IsoOf(dt) = e
    ELSE None

\* Monday..Friday, counted from Monday 2024-01-01
IsBusinessDay(dt) == DaysBetween(dt, <<2024, 1, 1>>) % 7 \in 0..4

\* the dates d with s <= d < e
DatesFrom(s, e) ==
    {dt \in DiasDates : ToOrdinal(s) <= ToOrdinal(dt) /\ ToOrdinal(dt) < ToOrdinal(e)}

\* number of Monday..Friday dates d with s <= d < e
BusinessDays(s, e) == Cardinality({dt \in DatesFrom(s, e) : IsBusinessDay(dt)})

StartDate(k) == DateOfEntry(dias_start[k])

\* the explicit end of row k, None when there is no valid one
ExplicitEnd(k) ==
    IF dias_end.given THEN DateOfEntry(dias_end.vals[k]) ELSE None

\* the end the row is counted to: the explicit one if valid, else today
EndDate(k) == IF ExplicitEnd(k) # None THEN ExplicitEnd(k) ELSE hoy

DiasReturned(where) == dias_pc = "done" /\ dias_site = where

(* C13: for a valid start s and end e with s <= e, dias_habiles_entre        *)
(* returns the number of dates d, s <= d < e, that are Monday..Friday: the   *)
(* start is counted, the end is not; s = e gives 0 and e = s + 7 days gives  *)
(* 5 whatever the weekday of s.                                              *)
C13_BusinessDayCount ==
    DiasReturned("dias_habiles_entre") =>
        \A k \in 1..Len(dias_start) :
            (StartDate(k) # None
                /\ ToOrdinal(StartDate(k)) <= ToOrdinal(EndDate(k))) =>
                /\ dias_out.vals[k] = Days(BusinessDays(StartDate(k), EndDate(k)))
                /\ StartDate(k) = EndDate(k) => dias_out.vals[k] = Days(0)
                /\ DaysBetween(EndDate(k), StartDate(k)) = 7 =>
                      dias_out.vals[k] = Days(5)

\* Saturday 2024-02-24 to Saturday 2024-03-02 given as the end column: 5
C13_Witness ==
    /\ DiasReturned("dias_habiles_entre")
    /\ dias_start = <<IsoOf(<<2024, 2, 24>>)>>
    /\ dias_end = Given(<<IsoOf(<<2024, 3, 2>>)>>)
    /\ dias_out.vals = <<Days(5)>>

\* what dias_habiles_entre returns, when it returns: null for a row without
\* a valid start, else the count to the explicit end if that is a date and
\* to today if not, on the index of the start column
DiasHabilesReturned ==
    DiasReturned("dias_habiles_entre") =>
        /\ dias_out.index = dias_index
        /\ Len(dias_out.vals) = Len(dias_start)
        /\ \A k \in 1..Len(dias_start) :
              IF StartDate(k) = None THEN dias_out.vals[k] = NullDays
              ELSE /\ dias_out.vals[k].kind = "int"
                   /\ dias_out.vals[k].n \in
                          busday_count(datetime64_D(StartDate(k)),
                                       datetime64_D(EndDate(k)))

(* C15: every computation of "DIAS ABIERTA" counts alike: for the same       *)
(* start, end and today, dias_habiles_entre, the per-row computations of     *)
(* render_tab_nubes_terceros and render_tab_bajas, and                       *)
(* procesar_reporte_general all give the number of Monday..Friday dates      *)
(* from the start (counted) to the end (not counted). The report counts      *)
(* calendar days, so this does not hold.                                     *)
C15_SameConvention ==
    dias_pc = "done" =>
        \A k \in 1..Len(dias_start) :
            (StartDate(k) # None
                /\ ToOrdinal(StartDate(k)) <= ToOrdinal(EndDate(k))) =>
                dias_out.vals[k] = Days(BusinessDays(StartDate(k), EndDate(k)))

----------------------------------------------------------------------------
(* Column aliasing: _col and _normalize_for_excel of app.py.  A column name  *)
(* is a sequence of one-character strings, so that str.lower() is computed.  *)

\* at most MaxCols columns in a frame
MaxCols == 3

UpperChars ==
    <<"A", "B", "C", "D", "E", "F", "G", "H", "I", "J", "K", "L", "M", "N",
      "O", "P", "Q", "R", "S", "T", "U", "V", "W", "X", "Y", "Z", "Ó">>

LowerChars ==
    <<"a", "b", "c", "d", "e", "f", "g", "h", "i", "j", "k", "l", "m", "n",
      "o", "p", "q", "r", "s", "t", "u", "v", "w", "x", "y", "z", "ó">>

\* str.lower() on the characters that occur in the names
LowerChar(ch) ==
    IF \E k \in 1..Len(UpperChars) : UpperChars[k] = ch
    THEN LowerChars[CHOOSE k \in 1..Len(UpperChars) : UpperChars[k] = ch]
    ELSE ch

Lower(t) == [k \in 1..Len(t) |-> LowerChar(t[k])]

\* the dict aliases of _normalize_for_excel, in insertion order
aliases ==
    <<[target |-> <<"S", "U", "S", "C", "R", "I", "P", "C", "I", "O", "N">>,
       names |-> <<<<"S", "U", "S", "C", "R", "I", "P", "C", "I", "O", "N">>,
                  <<"S", "u", "b", "s", "c", "r", "i", "p", "t", "i", "o", "n">>,
                  <<"s", "u", "b", "s", "c", "r", "i", "p", "t", "i", "o", "n">>>>],
      [target |-> <<"I", "N", "T", "E", "R", "A", "C", "C", "I", "O", "N">>,
       names |-> <<<<"I", "N", "T", "E", "R", "A", "C", "C", "I", "O", "N">>,
                  <<"I", "n", "t", "e", "r", "a", "c", "t", "i", "o", "n">>,
                  <<"i", "n", "t", "e", "r", "a", "c", "t", "i", "o", "n">>>>],
      [target |-> <<"C", "A", "T", "E", "G", "O", "R", "I", "A">>,
       names |-> <<<<"C", "A", "T", "E", "G", "O", "R", "I", "A">>,
                  <<"O", "r", "d", "e", "r", " ", "C", "a", "t", "e", "g", "o", "r", "y">>,
                  <<"o", "r", "d", "e", "r", " ", "c", "a", "t", "e", "g", "o", "r", "y">>,
                  <<"o", "r", "d", "e", "r", "_", "c", "a", "t", "e", "g", "o", "r", "y">>>>],
      [target |-> <<"E", "S", "T", "A", "D", "O">>,
       names |-> <<<<"E", "S", "T", "A", "D", "O">>,
                  <<"O", "r", "d", "e", "r", " ", "S", "t", "a", "t", "u", "s">>,
                  <<"s", "t", "a", "t", "u", "s">>,
                  <<"o", "r", "d", "e", "r", " ", "s", "t", "a", "t", "u", "s">>>>],
      [target |-> <<"O", "F", "E", "R", "T", "A">>,
       names |-> <<<<"O", "F", "E", "R", "T", "A">>,
                  <<"M", "a", "i", "n", " ", "O", "f", "f", "e", "r">>,
                  <<"o", "f", "f", "e", "r">>,
                  <<"m", "a", "i", "n", " ", "o", "f", "f", "e", "r">>,
                  <<"m", "a", "i", "n", "_", "o", "f", "f", "e", "r">>>>],
      [target |-> <<"R", "E", "S", "P", "O", "N", "S", "A", "B", "L", "E">>,
       names |-> <<<<"R", "E", "S", "P", "O", "N", "S", "A", "B", "L", "E">>,
                  <<"R", "e", "s", "p", "o", "n", "s", "i", "b", "l", "e">>,
                  <<"P", "M">>,
                  <<"P", "r", "o", "j", "e", "c", "t", " ", "M", "a", "n", "a", "g", "e", "r">>,
                  <<"o", "w", "n", "e", "r">>,
                  <<"p", "r", "o", "j", "e", "c", "t", " ", "m", "a", "n", "a", "g", "e", "r">>>>],
      [target |-> <<"F", "E", "C", "H", "A", " ", "D", "E", " ", "C", "R", "E", "A", "C", "I", "O", "N">>,
       names |-> <<<<"F", "E", "C", "H", "A", " ", "D", "E", " ", "C", "R", "E", "A", "C", "I", "O", "N">>,
                  <<"O", "r", "d", "e", "r", " ", "C", "r", "e", "a", "t", "i", "o", "n", " ", "D", "a", "t", "e">>,
                  <<"o", "r", "d", "e", "r", " ", "c", "r", "e", "a", "t", "i", "o", "n", " ", "d", "a", "t", "e">>,
                  <<"o", "r", "d", "e", "r", "_", "c", "r", "e", "a", "t", "i", "o", "n", "_", "d", "a", "t", "e">>,
                  <<"f", "e", "c", "h", "a", " ", "d", "e", " ", "c", "r", "e", "a", "c", "i", "o", "n">>,
                  <<"f", "e", "c", "h", "a", "_", "c", "r", "e", "a", "c", "i", "o", "n">>>>],
      [target |-> <<"F", "E", "C", "H", "A", " ", "D", "E", " ", "A", "C", "T", "I", "V", "A", "C", "I", "O", "N">>,
       names |-> <<<<"F", "E", "C", "H", "A", " ", "D", "E", " ", "A", "C", "T", "I", "V", "A", "C", "I", "O", "N">>,
                  <<"F", "e", "c", "h", "a", " ", "A", "c", "t", "i", "v", "a", "c", "i", "ó", "n">>,
                  <<"A", "c", "t", "i", "v", "a", "t", "i", "o", "n", " ", "D", "a", "t", "e">>,
                  <<"a", "c", "t", "i", "v", "a", "t", "i", "o", "n", " ", "d", "a", "t", "e">>,
                  <<"a", "c", "t", "i", "v", "a", "t", "i", "o", "n", "_", "d", "a", "t", "e">>,
                  <<"f", "e", "c", "h", "a", " ", "d", "e", " ", "a", "c", "t", "i", "v", "a", "c", "i", "o", "n">>,
                  <<"f", "e", "c", "h", "a", "_", "a", "c", "t", "i", "v", "a", "c", "i", "o", "n">>>>]>>

\* lower_map.get(key) for lower_map = {str(c).lower(): c for c in df.columns}:
\* of the columns with the same lowered name the last one stays in the dict
lower_map_get(cols, key) ==
    LET hits == {k \in 1..Len(cols) : Lower(cols[k]) = key}
    IN  IF hits = {} THEN NoColumn
        ELSE Found(cols[CHOOSE k \in hits : \A j \in hits : j <= k])

\* a scan that goes through the names from the last to the first
RECURSIVE first_bound_reversed(_, _)
first_bound_reversed(cols, names) ==
    IF names = <<>> THEN NoColumn
    ELSE LET src == lower_map_get(cols, Lower(names[Len(names)]))
         IN  IF src.found /\ src.name # <<>> THEN src
             ELSE first_bound_reversed(cols, SubSeq(names, 1, Len(names) - 1))

\* lines 188-192: for n in names: src = lower_map.get(n.lower()); if src: ...
\* break
RECURSIVE first_bound(_, _)
first_bound(cols, names) ==
    IF names = <<>> THEN NoColumn
    ELSE LET src == lower_map_get(cols, Lower(Head(names)))
         IN  IF src.found /\ src.name # <<>> THEN src
             ELSE first_bound(cols, Tail(names))

\* _col lines 125-129: for n in names: c = lower_map.get(str(n).lower());
\* if c is not None: return c; return None
RECURSIVE first_not_none(_, _)
first_not_none(cols, names) ==
    IF names = <<>> THEN NoColumn
    ELSE LET c == lower_map_get(cols, Lower(Head(names)))
         IN  IF c.found THEN c
             ELSE first_not_none(cols, Tail(names))

\* colmap[src] = target on a dict kept as a set of [src, target]
dict_set(plan, src, target) ==
    {e \in plan : e.src # src} \cup {[src |-> src, target |-> target]}

\* lines 186-192: colmap after the first n entries of aliases
RECURSIVE colmap_after(_, _)
colmap_after(cols, n) ==
    IF n = 0 THEN {}
    ELSE LET src == first_bound(cols, aliases[n].names)
             plan == colmap_after(cols, n - 1)
         IN  IF src.found THEN dict_set(plan, src.name, aliases[n].target)
             ELSE plan

\* df.rename(columns=plan).columns
rename(cols, plan) ==
    [k \in 1..Len(cols) |->
        IF \E e \in plan : e.src = cols[k]
        THEN (CHOOSE e \in plan : e.src = cols[k]).target
        ELSE cols[k]]

\* column names a source file may carry
ColumnPool ==
    {<<"E", "S", "T", "A", "D", "O">>,
     <<"O", "r", "d", "e", "r", " ", "S", "t", "a", "t", "u", "s">>,
     <<"e", "s", "t", "a", "d", "o">>,
     <<"s", "t", "a", "t", "u", "s">>,
     <<" ", "o", "r", "d", "e", "r", " ", "s", "t", "a", "t", "u", "s", " ">>,
     <<"C", "l", "i", "e", "n", "t", "e">>,
     <<"F", "E", "C", "H", "A", " ", "A", "C", "T", "I", "V", "A", "C", "I", "Ó", "N">>,
     <<"P", "M">>}

\* frames: up to MaxCols columns with distinct names
Frames ==
    {cols \in SeqsUpTo(ColumnPool, MaxCols) :
        \A j, k \in 1..Len(cols) : j # k => cols[j] # cols[k]}

\* the names _col is called with at lines 242, 138 and 244
ColArgs ==
    {<<<<"E", "S", "T", "A", "D", "O">>,
       <<"O", "r", "d", "e", "r", " ", "S", "t", "a", "t", "u", "s">>>>,
     <<<<"F", "E", "C", "H", "A", " ", "D", "E", " ", "A", "C", "T", "I", "V", "A", "C", "I", "O", "N">>,
       <<"F", "e", "c", "h", "a", " ", "A", "c", "t", "i", "v", "a", "c", "i", "ó", "n">>>>,
     <<<<"R", "E", "S", "P", "O", "N", "S", "A", "B", "L", "E">>,
       <<"R", "e", "s", "p", "o", "n", "s", "i", "b", "l", "e">>,
       <<"P", "M">>,
       <<"P", "r", "o", "j", "e", "c", "t", " ", "M", "a", "n", "a", "g", "e", "r">>>>}

InitAlias ==
    /\ DatesIdle
    /\ DiasIdle
    /\ GridIdle
    /\ DlIdle
    /\ HistIdle
    /\ AliasIdle
    /\ hoy = <<2024, 6, 1>>

\* what the column lookups leave alone
notAlias == <<datesVars, diasVars, gridVars, dlVars, histVars>>

\* the cell values of a frame read from a file: one column of values per
\* name, told apart by the place the column has in the file
CellsOf(cols) == [k \in 1..Len(cols) |-> k]

\* a function that renames in place and returns the frame it was given
result_is_df == TRUE

\* line 193: df.rename(columns=colmap) builds a new frame and .copy() copies
\* it: the frame returned is not the object df
result_is_copy == FALSE

\* _normalize_for_excel(df): app.py lines 165-194; a frame that is the same
\* object as df shows its names in df too
_normalize_for_excel ==
    /\ alias_pc = "idle"
    /\ \E cols \in Frames :
        LET plan == colmap_after(cols, Len(aliases))
        IN  /\ df_passed' = Frame(cols, CellsOf(cols))
            /\ colmap' = plan
            /\ out_columns' = rename(cols, plan)
            /\ out_cells' = CellsOf(cols)
            /\ out_shared' = result_is_copy
            /\ df_columns' = IF out_shared' THEN out_columns' ELSE cols
            /\ df_cells' = CellsOf(cols)
    /\ alias_pc' = "done"
    /\ alias_op' = "_normalize_for_excel"
    /\ UNCHANGED <<col_names, col_ret, notAlias>>

\* procesar_reporte_general(df_excel, out_excel), app.py line 480, assigns
\* df.columns = [col.strip() for col in df.columns] on the frame it is
\* given (reporte_general.py line 30): the frame _normalize_for_excel
\* returned, and the caller's frame only if that is the same object
strip_columns ==
    /\ alias_pc = "done"
    /\ alias_op = "_normalize_for_excel"
    /\ out_columns' = [k \in 1..Len(out_columns) |-> Strip(out_columns[k])]
    /\ df_columns' = IF out_shared THEN out_columns' ELSE df_columns
    /\ alias_pc' = "processed"
    /\ UNCHANGED <<alias_op, col_names, colmap, col_ret, df_passed, df_cells,
                   out_cells, out_shared, notAlias>>

\* _col(df, *names): app.py lines 122-129
_col ==
    /\ alias_pc = "idle"
    /\ \E cols \in Frames :
        \E names \in ColArgs :
            /\ df_columns' = cols
            /\ col_names' = names
            /\ col_ret' = first_not_none(cols, names)
    /\ alias_pc' = "done"
    /\ alias_op' = "_col"
    /\ UNCHANGED <<colmap, out_columns, df_passed, df_cells, out_cells,
                   out_shared, notAlias>>

NextAlias == _normalize_for_excel \/ strip_columns \/ _col

SpecAlias == InitAlias /\ [][NextAlias]_vars

----------------------------------------------------------------------------
(* Vocabulary of the aliasing properties.                                    *)

\* the column name differs from the alias at most in letter case
MatchesAlias(c, a) == Lower(c) = Lower(a)

\* the same, after trimming the whitespace around the column name
MatchesTrimmed(c, a) == Lower(Strip(c)) = Lower(a)

\* positions of the names that match some column of the frame
MatchingNames(names) ==
    {j \in 1..Len(names) :
        \E k \in 1..Len(df_columns) : MatchesAlias(df_columns[k], names[j])}

Earliest(js) == CHOOSE j \in js : \A j2 \in js : j <= j2

Normalized == alias_pc = "done" /\ alias_op = "_normalize_for_excel"

Looked == alias_pc = "done" /\ alias_op = "_col"

\* the entries of the rename plan for the n-th canonical field
PlanFor(n) == {e \in colmap : e.target = aliases[n].target}

(* C16: a column name that differs from a recognized alias only in letter    *)
(* case and surrounding whitespace, such as ' order status ', is renamed to  *)
(* the alias's canonical field by _normalize_for_excel (when no other        *)
(* column competes for that field) and is found by _col. The code lowers     *)
(* the names but does not trim them, so this does not hold.                  *)
C16_TrimmedCaseInsensitive ==
    /\ Normalized =>
          \A n \in 1..Len(aliases) : \A k \in 1..Len(df_columns) :
              ((\E j \in 1..Len(aliases[n].names) :
                    MatchesTrimmed(df_columns[k], aliases[n].names[j]))
                /\ \A k2 \in 1..Len(df_columns) : \A j \in 1..Len(aliases[n].names) :
                      MatchesTrimmed(df_columns[k2], aliases[n].names[j]) => k2 = k)
              => out_columns[k] = aliases[n].target
    /\ Looked =>
          ((\E k \in 1..Len(df_columns) : \E j \in 1..Len(col_names) :
                MatchesTrimmed(df_columns[k], col_names[j]))
           => col_ret.found)

(* C17: for each canonical field _normalize_for_excel binds one column, the  *)
(* one matched by the earliest alias of the field's list that matches any    *)
(* column; columns matched only by later aliases keep their names; a field   *)
(* none of whose aliases matches has no entry in the rename plan, and the    *)
(* call still returns. _col returns the column matched by the earliest of    *)
(* its names that matches, or None.                                          *)
C17_EarliestAliasWins ==
    /\ alias_pc \in {"idle", "done", "processed"}
    /\ Normalized =>
          /\ Len(out_columns) = Len(df_columns)
          /\ \A k \in 1..Len(df_columns) :
                out_columns[k] =
                    IF \E e \in colmap : e.src = df_columns[k]
                    THEN (CHOOSE e \in colmap : e.src = df_columns[k]).target
                    ELSE df_columns[k]
          /\ \A n \in 1..Len(aliases) :
                LET js == MatchingNames(aliases[n].names)
                IN  IF js = {} THEN PlanFor(n) = {}
                    ELSE /\ Cardinality(PlanFor(n)) = 1
                         /\ \A e \in PlanFor(n) :
                               /\ \E k \in 1..Len(df_columns) : df_columns[k] = e.src
                               /\ MatchesAlias(e.src, aliases[n].names[Earliest(js)])
    /\ Looked =>
          LET js == MatchingNames(col_names)
          IN  IF js = {} THEN col_ret = NoColumn
              ELSE /\ col_ret.found
                   /\ \E k \in 1..Len(df_columns) : df_columns[k] = col_ret.name
                   /\ MatchesAlias(col_ret.name, col_names[Earliest(js)])

\* the frame has 'status' and then 'Order Status', both aliases of ESTADO:
\* only 'Order Status', the earlier alias, is renamed
C17_Witness ==
    /\ Normalized
    /\ df_columns = <<<<"s", "t", "a", "t", "u", "s">>,
                      <<"O", "r", "d", "e", "r", " ", "S", "t", "a", "t", "u", "s">>,
                      <<"C", "l", "i", "e", "n", "t", "e">>>>
    /\ colmap = {[src |-> <<"O", "r", "d", "e", "r", " ", "S", "t", "a", "t", "u", "s">>,
                  target |-> <<"E", "S", "T", "A", "D", "O">>]}
    /\ out_columns[1] = df_columns[1]
    /\ out_columns[2] = <<"E", "S", "T", "A", "D", "O">>

----------------------------------------------------------------------------
(* The grid: the comparators of build_date_comparators (grid.py) and the     *)
(* sort a grid column runs with them (ui_panels.py).                         *)

\* a grid sorts at most MaxRows rows
MaxRows == 3

\* JavaScript values of a field: null / undefined, or a string
JsNull == [kind |-> "null", s |-> <<>>]
JsString(t) == [kind |-> "str", s |-> t]

\* a row node without data (nodeA.data is undefined), or with its two fields
NoData == [data |-> FALSE, crea |-> JsNull, act |-> JsNull]
RowNode(c, a) == [data |-> TRUE, crea |-> c, act |-> a]

\* UTF-16 code unit of the characters of an ISO entry
CharCode(ch) == IF ch = "-" THEN 45 ELSE 48 + DigitVal(ch)

\* A < B on two JavaScript strings: by code units, a proper prefix first
RECURSIVE js_less(_, _)
js_less(a, b) ==
    IF b = <<>> THEN FALSE
    ELSE IF a = <<>> THEN TRUE
    ELSE IF CharCode(Head(a)) # CharCode(Head(b))
    THEN CharCode(Head(a)) < CharCode(Head(b))
    ELSE js_less(Tail(a), Tail(b))

\* !A: null, undefined and '' are falsy
js_not(x) == x.kind = "null" \/ x.s = <<>>

\* const A = nodeA.data ? nodeA.data.<field> : null
field_of(node, col) ==
    IF ~node.data THEN JsNull
    ELSE IF col = "crea" THEN node.crea ELSE node.act

\* the body of both comparators: grid.py lines 6-9 and 14-17
comparator(col, nodeA, nodeB) ==
    LET A == field_of(nodeA, col)
        B == field_of(nodeB, col)
    IN  IF js_not(A) /\ js_not(B) THEN 0
        ELSE IF js_not(A) THEN -1
        ELSE IF js_not(B) THEN 1
        ELSE IF js_less(A.s, B.s) THEN -1
        ELSE IF js_less(B.s, A.s) THEN 1 ELSE 0

\* the grid's sort of a column, ascending: a stable insertion sort that asks
\* the column's comparator
RECURSIVE insert_row(_, _, _)
insert_row(col, sorted, node) ==
    IF sorted = <<>> THEN <<node>>
    ELSE IF comparator(col, sorted[Len(sorted)], node) > 0
    THEN insert_row(col, SubSeq(sorted, 1, Len(sorted) - 1), node)
         \o <<sorted[Len(sorted)]>>
    ELSE sorted \o <<node>>

RECURSIVE sort_rows(_, _)
sort_rows(col, rows) ==
    IF rows = <<>> THEN <<>>
    ELSE insert_row(col, sort_rows(col, SubSeq(rows, 1, Len(rows) - 1)),
                    rows[Len(rows)])

\* resolved dates of the rows: year, month and day each change between some
\* two of them, and months and days of one and of two digits occur
GridDates ==
    {<<1999, 12, 31>>, <<2024, 2, 29>>, <<2024, 9, 30>>, <<2024, 10, 1>>}

\* what a_iso_y_display leaves in an ISO column, and a column that is absent
IsoFields ==
    {JsString(IsoOf(dt).s) : dt \in GridDates} \cup {JsString(<<>>), JsNull}

Nodes ==
    {NoData}
    \cup {RowNode(c, a) :
            c \in IsoFields,
            a \in {JsString(<<>>), JsString(IsoOf(<<2024, 2, 29>>).s),
                   JsString(IsoOf(<<2024, 10, 1>>).s)}}

NarrowNodes ==
    {NoData, RowNode(JsString(<<>>), JsString(<<>>)),
     RowNode(JsString(IsoOf(<<2024, 9, 30>>).s), JsString(IsoOf(<<2024, 10, 1>>).s)),
     RowNode(JsString(IsoOf(<<2024, 10, 1>>).s), JsString(IsoOf(<<2024, 2, 29>>).s)),
     RowNode(JsString(IsoOf(<<1999, 12, 31>>).s), JsString(<<>>))}

InitGrid ==
    /\ DatesIdle
    /\ DiasIdle
    /\ AliasIdle
    /\ DlIdle
    /\ HistIdle
    /\ GridIdle
    /\ hoy = <<2024, 6, 1>>

\* what the grid leaves alone
notGrid == <<datesVars, diasVars, aliasVars, dlVars, histVars>>

\* the comparator of a column is called on every pair of three row nodes
Compare(col) ==
    /\ grid_pc = "idle"
    /\ \E a \in Nodes : \E b \in Nodes : \E c \in Nodes :
        /\ grid_nodes' = <<a, b, c>>
        /\ cmp_ret' = [x \in 1..3 |-> [y \in 1..3 |->
                          comparator(col, <<a, b, c>>[x], <<a, b, c>>[y])]]
    /\ grid_pc' = "compared"
    /\ grid_col' = col
    /\ UNCHANGED <<grid_sorted, notGrid>>

cmp_fecha_crea == Compare("crea")

cmp_fecha_act == Compare("act")

\* the user sorts the grid by a date column: ui_panels.py lines 245-262
SortColumn ==
    /\ grid_pc = "idle"
    /\ \E rows \in SeqsUpTo(NarrowNodes, MaxRows) : \E col \in {"crea", "act"} :
        /\ grid_nodes' = rows
        /\ grid_col' = col
        /\ grid_sorted' = sort_rows(col, rows)
    /\ grid_pc' = "sorted"
    /\ UNCHANGED <<cmp_ret, notGrid>>

NextGrid == cmp_fecha_crea \/ cmp_fecha_act \/ SortColumn

SpecGrid == InitGrid /\ [][NextGrid]_vars

----------------------------------------------------------------------------
(* Vocabulary of the grid properties.                                        *)

\* the ISO value of a row in the column at work; null for a row without data
IsoValue(node) ==
    IF ~node.data THEN JsNull
    ELSE IF grid_col = "crea" THEN node.crea ELSE node.act

\* the row has no date: the value is missing or ''
Undated(node) == IsoValue(node).kind = "null" \/ IsoValue(node).s = <<>>

\* the resolved date the row's ISO value was written from
DateOfNode(node) == CHOOSE dt \in GridDates : IsoOf(dt).s = IsoValue(node).s

Before(d1, d2) == ToOrdinal(d1) < ToOrdinal(d2)

\* how often a node occurs in a sequence of rows
Occurrences(rows, node) == Cardinality({k \in 1..Len(rows) : rows[k] = node})

(* C20: for resolved dates d1 < d2 the ISO strings compare ISO(d1) < ISO(d2); *)
(* both grid comparators order two dated rows by their dates, put a row       *)
(* whose ISO value is empty or missing before every dated row, return 0 for   *)
(* two such rows, and are antisymmetric and transitive; a column sorted with  *)
(* them has the undated rows first and the dated rows in chronological order. *)
C20_IsoSortsChronologically ==
    /\ \A d1 \in GridDates : \A d2 \in GridDates :
          Before(d1, d2) => js_less(IsoOf(d1).s, IsoOf(d2).s)
    /\ grid_pc = "compared" =>
          \A x \in 1..3 : \A y \in 1..3 :
              LET A == grid_nodes[x]
                  B == grid_nodes[y]
              IN  /\ (Undated(A) /\ Undated(B)) => cmp_ret[x][y] = 0
                  /\ (Undated(A) /\ ~Undated(B)) => cmp_ret[x][y] = -1
                  /\ (~Undated(A) /\ ~Undated(B)) =>
                        cmp_ret[x][y] =
                            IF Before(DateOfNode(A), DateOfNode(B)) THEN -1
                            ELSE IF Before(DateOfNode(B), DateOfNode(A)) THEN 1
                            ELSE 0
                  /\ cmp_ret[x][y] = 0 - cmp_ret[y][x]
                  /\ \A z \in 1..3 :
                        (cmp_ret[x][y] <= 0 /\ cmp_ret[y][z] <= 0) =>
                            cmp_ret[x][z] <= 0
    /\ grid_pc = "sorted" =>
          /\ Len(grid_sorted) = Len(grid_nodes)
          /\ \A node \in NarrowNodes :
                Occurrences(grid_sorted, node) = Occurrences(grid_nodes, node)
          /\ \A x \in 1..Len(grid_sorted) : \A y \in 1..Len(grid_sorted) :
                x < y =>
                    /\ Undated(grid_sorted[y]) => Undated(grid_sorted[x])
                    /\ (~Undated(grid_sorted[x]) /\ ~Undated(grid_sorted[y])) =>
                          ~Before(DateOfNode(grid_sorted[y]),
                                  DateOfNode(grid_sorted[x]))

\* the creation comparator on a row without data, a row of 2024-10-01 and a
\* row of 2024-09-30: the row without data is first, September is before
\* October
C20_Witness ==
    /\ grid_pc = "compared" /\ grid_col = "crea"
    /\ grid_nodes[1] = NoData
    /\ grid_nodes[2].crea = JsString(IsoOf(<<2024, 10, 1>>).s)
    /\ grid_nodes[3].crea = JsString(IsoOf(<<2024, 9, 30>>).s)
    /\ cmp_ret[1][2] = -1 /\ cmp_ret[2][1] = 1
    /\ cmp_ret[2][3] = 1 /\ cmp_ret[3][2] = -1
    /\ cmp_ret[1][1] = 0

----------------------------------------------------------------------------
(* Further properties of _split_ddmmaa and a_iso_y_display.                 *)

\* the value reaches lines 27-42: the pattern matched and neither test of
\* lines 21 and 24 held
FallsThrough(val) ==
    /\ IsPattern(val)
    /\ ~(PatA(val) > 12 /\ PatB(val) <= 12)
    /\ ~(PatA(val) <= 12 /\ PatB(val) > 12)

\* the two candidates of lines 27-28
CandidateDayFirst(val) ==
    _try_make_date(2000 + PatYY(val), PatB(val), PatA(val))
CandidateMonthFirst(val) ==
    _try_make_date(2000 + PatYY(val), PatA(val), PatB(val))

(* C30: in the fall-through branch of _split_ddmmaa the day-first and the   *)
(* month-first candidate are both dates, exactly when both components are   *)
(* in 1..12, or neither is: exactly one valid candidate does not occur, so  *)
(* a resolved row of this branch always had both candidates to choose from  *)
(* and an unresolvable row had none.                                        *)
C30_CandidatesBothOrNeither ==
    (RowResolved /\ FallsThrough(v)) =>
        LET dd == CandidateDayFirst(v)
            mm == CandidateMonthFirst(v)
            both == PatA(v) \in 1..12 /\ PatB(v) \in 1..12
        IN  /\ (dd # None) = (mm # None)
            /\ (dd # None) = both
            /\ (ret.tag = "date") = both
            /\ (ret.tag = "none") = ~both
            /\ ret.tag = "date" => ret \in {DayFirst(v), MonthFirst(v)}

\* '00-05-24' with the hint 400: a <= 12 and b <= 12, neither candidate is a
\* date, the row is unresolvable
C30_Witness ==
    /\ RowResolved
    /\ v = Text(TextDash(0, 5, 24))
    /\ dias_ref = IntHint(400)
    /\ FallsThrough(v)
    /\ CandidateDayFirst(v) = None
    /\ CandidateMonthFirst(v) = None
    /\ ret = Unresolvable

\* int(dias_ref) of lines 33 and 35 is evaluated: the value is text that
\* matches the pattern, lines 21 and 24 did not return, line 29 did not
\* return, the test of line 30 holds and a candidate is there to be scored
int_dias_ref_evaluated(val, h) ==
    /\ val.kind = "str"
    /\ LET mobj == _ddmmaa_match(Strip(val.s))
       IN  /\ mobj.ok
           /\ LET a == IntOf(mobj.g1)
                  b == IntOf(mobj.g2)
                  Y == full_year(IntOf(mobj.g3))
                  dt_ddmm == _try_make_date(Y, b, a)
                  dt_mmdd == _try_make_date(Y, a, b)
              IN  /\ ~(a > 12 /\ b <= 12)
                  /\ ~(a <= 12 /\ b > 12)
                  /\ ~(dt_ddmm = None /\ dt_mmdd = None)
                  /\ hint_given(h)
                  /\ (dt_ddmm # None \/ dt_mmdd # None)

(* C28: a NaN hint is an absent hint: for every value and today the row     *)
(* resolved with a NaN hint has the result of _split_ddmmaa without a hint  *)
(* and int(dias_ref) is not evaluated; int(dias_ref) is evaluated only for  *)
(* an integer hint on a value of the ambiguous branch that has a valid      *)
(* candidate.                                                               *)
C28_NaNHintIsNoHint ==
    RowResolved =>
        /\ dias_ref.kind = "nan" =>
              /\ ret = _split_ddmmaa(v, NoHint, hoy)
              /\ ~int_dias_ref_evaluated(v, dias_ref)
        /\ int_dias_ref_evaluated(v, dias_ref) =>
              /\ dias_ref.kind = "int"
              /\ FallsThrough(v)
              /\ Candidates(v) # {}

\* today = 2024-06-01, '04-06-24' with a NaN hint: the day-first reading is
\* three days ahead, so the month-first reading 2024-04-06 is the result, as
\* without a hint; the reading nearest to today is not
C28_Witness ==
    /\ RowResolved
    /\ hoy = <<2024, 6, 1>>
    /\ v = Text(TextDash(4, 6, 24))
    /\ dias_ref = NaNHint
    /\ ret = MonthFirst(v)
    /\ ret = _split_ddmmaa(v, NoHint, hoy)
    /\ ret # _split_ddmmaa(v, IntHint(0), hoy)

(* C23: hints go with values by position: the row at position i is resolved *)
(* with the entry of the hints sequence at position i, whatever the index   *)
(* labels are, when a hints sequence is given and has that position, and    *)
(* with no hint otherwise; the rows past the end of a shorter hints         *)
(* sequence get the entries of a call without hints, and hint entries past  *)
(* the last value change nothing.                                           *)
C23_HintsByPosition ==
    /\ RowResolved =>
          /\ v = series[i]
          /\ dias_ref = OwnHint(i)
          /\ (~dias_ref_series.given \/ i > Len(dias_ref_series.vals)) =>
                dias_ref = NoHint
    /\ pc = "done" =>
          /\ Len(out_iso.vals) = Len(series)
          /\ Len(out_disp.vals) = Len(series)
          /\ \A k \in 1..Len(series) :
                (~dias_ref_series.given \/ k > Len(dias_ref_series.vals)) =>
                    /\ out_iso.vals[k] = AloneIso(series[k], NoHint)
                    /\ out_disp.vals[k] = AloneDisp(series[k], NoHint)

\* today = 2024-06-01, two rows '03-04-24' labelled 7 and 6 with the one
\* hint 400: the first row is 2024-03-04 by its hint, the second row is
\* 2024-04-03 as without hints
C23_Witness ==
    /\ pc = "done"
    /\ hoy = <<2024, 6, 1>>
    /\ series = <<Text(TextDash(3, 4, 24)), Text(TextDash(3, 4, 24))>>
    /\ index = <<7, 6>>
    /\ dias_ref_series = Given(<<IntHint(400)>>)
    /\ out_iso.vals[1] = IsoOf(<<2024, 3, 4>>).s
    /\ out_iso.vals[2] = IsoOf(<<2024, 4, 3>>).s
    /\ out_iso.vals[2] = AloneIso(series[2], NoHint)

(* C22: a_iso_y_display has no side effects: from its entry to its return   *)
(* the values, their index and the hints sequence stay what they were       *)
(* (length, order, entries), what the caller kept of an earlier call is not *)
(* touched, and the two returned sequences are built in lists that are      *)
(* empty at entry and hold this call's entries only.                        *)
C22_NoSideEffects ==
    [][/\ pc = "loop" =>
             /\ series' = series
             /\ index' = index
             /\ dias_ref_series' = dias_ref_series
             /\ earlier' = earlier
       /\ (pc # "loop" /\ pc' = "loop") =>
             /\ iso_vals' = <<>>
             /\ disp_vals' = <<>>
             /\ earlier.seen => earlier' = earlier
       /\ (pc = "loop" /\ pc' = "done") =>
             /\ out_iso'.vals = iso_vals /\ Len(iso_vals) = Len(series)
             /\ out_disp'.vals = disp_vals /\ Len(disp_vals) = Len(series)]_vars

\* a second call has returned on '03-04-24' with the hint 400 while the
\* caller holds the entries that '03-04-24' got without a hint in the call
\* before: the kept entries are still those, the new ones differ, the
\* arguments are as passed
C22_Witness ==
    /\ pc = "done"
    /\ earlier.seen
    /\ earlier.val = Text(TextDash(3, 4, 24))
    /\ earlier.hint = NoHint
    /\ earlier.iso = AloneIso(earlier.val, NoHint)
    /\ series = <<Text(TextDash(3, 4, 24)), Missing>>
    /\ index = <<7, 6>>
    /\ dias_ref_series = Given(<<IntHint(400), NaNHint>>)
    /\ out_iso.vals[1] # earlier.iso
    /\ out_iso.vals[2] = <<>>

\* the date an ISO entry 'YYYY-MM-DD' spells
DateOfIso(t) ==
    <<IntOf(SubSeq(t, 1, 4)), IntOf(SubSeq(t, 6, 7)), IntOf(SubSeq(t, 9, 10))>>

\* a call on the display text of an earlier row has returned
ReadBackDone == pc = "done" /\ site = "readback" /\ earlier.seen

(* C27: resolving a display string again gives the same date: when a row    *)
(* resolved to a date D of the years 2000..2099 that is at most one day     *)
(* after today, a call without hints, under the same today, on the          *)
(* 'DD-MM-YY' text that a_iso_y_display returned for D returns the ISO text *)
(* of D and the same display text.                                          *)
C27_DisplayRoundTrip ==
    (ReadBackDone /\ earlier.iso # <<>>) =>
        LET D == DateOfIso(earlier.iso)
        IN  (D[1] \in 2000..2099 /\ DaysBetween(D, hoy) <= 1) =>
                /\ series = <<Text(earlier.disp)>>
                /\ dias_ref_series = NotGiven
                /\ out_iso.vals = <<earlier.iso>>
                /\ out_disp.vals = <<earlier.disp>>

\* today = 2024-06-01: '02-06-24' resolved to 2024-06-02, one day ahead; its
\* display text '02-06-24' read again is 2024-06-02, although the month-first
\* reading 2024-02-06 is a date too
C27_Witness ==
    /\ ReadBackDone
    /\ hoy = <<2024, 6, 1>>
    /\ earlier.val = Text(TextDash(2, 6, 24))
    /\ earlier.iso = IsoOf(<<2024, 6, 2>>).s
    /\ DaysBetween(DateOfIso(earlier.iso), hoy) = 1
    /\ series = <<Text(TextDash(2, 6, 24))>>
    /\ out_iso.vals = <<earlier.iso>>
    /\ _try_make_date(2024, 2, 6) # None

----------------------------------------------------------------------------
(* Further properties of the column aliasing.                                *)

\* _normalize_for_excel has returned, and the report may have been written
Returned ==
    alias_op = "_normalize_for_excel" /\ alias_pc \in {"done", "processed"}

\* some canonical field has this name
IsCanonical(c) == \E n \in 1..Len(aliases) : aliases[n].target = c

(* C21: _normalize_for_excel does not change the frame it is given: after    *)
(* the call, and after the report has been written from the returned frame,  *)
(* the caller's frame has the column names, in the order, and the cell       *)
(* values it was passed with; the renamed frame is another object with the   *)
(* same cell values.                                                         *)
C21_InputNotMutated ==
    Returned =>
        /\ df_columns = df_passed.columns
        /\ df_cells = df_passed.cells
        /\ ~out_shared
        /\ out_cells = df_passed.cells
        /\ alias_pc = "done" => out_columns = rename(df_passed.columns, colmap)

\* the frame ['Order Status', ' order status ']: the returned frame was
\* renamed to ['ESTADO', ' order status '] and then stripped to
\* ['ESTADO', 'order status'] by the report; the caller's frame is as passed
C21_Witness ==
    /\ Returned
    /\ alias_pc = "processed"
    /\ df_passed.columns =
          <<<<"O", "r", "d", "e", "r", " ", "S", "t", "a", "t", "u", "s">>,
            <<" ", "o", "r", "d", "e", "r", " ", "s", "t", "a", "t", "u", "s", " ">>>>
    /\ out_columns =
          <<<<"E", "S", "T", "A", "D", "O">>,
            <<"o", "r", "d", "e", "r", " ", "s", "t", "a", "t", "u", "s">>>>
    /\ df_columns = df_passed.columns
    /\ df_columns # out_columns
    /\ df_cells = <<1, 2>>

(* C29: the rename plan of _normalize_for_excel yields no duplicate          *)
(* canonical column: for every frame of distinct column names each           *)
(* canonical field is the target of at most one column, each column has at   *)
(* most one target, and no two columns of the returned frame have the same   *)
(* canonical name. The frame ['ESTADO', 'estado'] is returned as             *)
(* ['ESTADO', 'ESTADO'], so this does not hold.                              *)
C29_NoDuplicateCanonical ==
    Normalized =>
        /\ \A n \in 1..Len(aliases) : Cardinality(PlanFor(n)) <= 1
        /\ \A e1 \in colmap : \A e2 \in colmap : e1.src = e2.src => e1 = e2
        /\ \A j \in 1..Len(out_columns) : \A k \in 1..Len(out_columns) :
              (j # k /\ IsCanonical(out_columns[j])) =>
                  out_columns[j] # out_columns[k]

----------------------------------------------------------------------------
(* The panel loop of _download_from_dashboard (superset_downloader.py).      *)
(* What the page does at each panel is the environment's choice.             *)

\* at most MaxPanels panels on a dashboard
MaxPanels == 3

\* what one iteration of the loop meets:
\*   "no_open"      _open_header_menu returned False (line 243)
\*   "menu_timeout" lines 247-249 raised PWTimeout
\*   "menu_hidden"  the menu is not visible when the 8 s of line 248 are over
\*   "filtered"     the title filter does not match the panel (line 260)
\*   "no_csv"       no CSV item in the menu nor in its submenu (line 267)
\*   "dl_timeout"   wait_for_event("download") raised PWTimeout (line 283)
\*   "dl_error"     wait_for_event or save_as raised another error (line 285)
\*   "saved"        the file was saved (lines 272-276)
Outcomes(filter) ==
    {"no_open", "menu_timeout", "menu_hidden", "no_csv", "dl_timeout",
     "dl_error", "saved"}
    \cup (IF filter THEN {"filtered"} ELSE {})

\* a limit that lets one more file through: descargados > max_panels
limit_reached_late(mp, d) == mp # 0 /\ d > mp

\* line 239: max_panels and descargados >= max_panels
limit_reached(mp, d) == mp # 0 /\ d >= mp

\* expect(menus.last).to_be_visible(timeout=8000) on a menu that is not
\* visible: playwright's expect raises AssertionError, which the
\* "except PWTimeout" of line 250 does not catch
expect_to_be_visible(o) ==
    IF o = "menu_hidden" THEN "AssertionError"
    ELSE IF o = "menu_timeout" THEN "PWTimeout"
    ELSE "visible"

InitDownload ==
    /\ DatesIdle
    /\ DiasIdle
    /\ AliasIdle
    /\ GridIdle
    /\ HistIdle
    /\ DlIdle
    /\ hoy = <<2024, 6, 1>>

\* what the downloader leaves alone
notDownload == <<datesVars, diasVars, aliasVars, gridVars, histVars>>

\* lines 194-236: the panels are counted; without panels [] is returned
_download_from_dashboard ==
    /\ dl_pc = "idle"
    /\ total' \in 0..MaxPanels
    /\ max_panels' \in -1..MaxPanels
    /\ title_regex' \in BOOLEAN
    /\ dl_pc' = IF total' = 0 THEN "returned" ELSE "loop"
    /\ idx' = 0
    /\ descargados' = 0
    /\ results' = <<>>
    /\ attempts' = <<>>
    /\ UNCHANGED notDownload

\* lines 238-291: one iteration of "for idx in range(total)"
panel_iteration ==
    /\ dl_pc = "loop"
    /\ idx < total
    /\ ~limit_reached(max_panels, descargados)
    /\ \E o \in Outcomes(title_regex) :
        /\ attempts' = Append(attempts, [panel |-> idx, outcome |-> o])
        /\ IF o # "no_open" /\ expect_to_be_visible(o) = "AssertionError"
           THEN /\ dl_pc' = "raised"
                /\ UNCHANGED <<idx, descargados, results>>
           ELSE /\ dl_pc' = "loop"
                /\ idx' = idx + 1
                /\ IF o = "saved"
                   THEN /\ results' = Append(results, idx)
                        /\ descargados' = descargados + 1
                   ELSE UNCHANGED <<descargados, results>>
    /\ UNCHANGED <<total, max_panels, title_regex, notDownload>>

\* the break of line 240 or the end of the range, and line 293
return_results ==
    /\ dl_pc = "loop"
    /\ idx = total \/ limit_reached(max_panels, descargados)
    /\ dl_pc' = "returned"
    /\ UNCHANGED <<total, max_panels, title_regex, idx, descargados, results,
                   attempts, notDownload>>

NextDownload == _download_from_dashboard \/ panel_iteration \/ return_results

SpecDownload == InitDownload /\ [][NextDownload]_vars

----------------------------------------------------------------------------
(* Vocabulary of the downloader properties.                                  *)

\* the panels whose iteration saved a file, in the order of the iterations
RECURSIVE SavedPanels(_)
SavedPanels(as) ==
    IF as = <<>> THEN <<>>
    ELSE LET rest == SavedPanels(SubSeq(as, 1, Len(as) - 1))
             last == as[Len(as)]
         IN  IF last.outcome = "saved" THEN Append(rest, last.panel) ELSE rest

\* every failure the loop can meet at a panel
Failures ==
    {"no_open", "menu_timeout", "menu_hidden", "no_csv", "dl_timeout",
     "dl_error"}

(* C24: a panel whose download fails is skipped, not retried and not fatal:  *)
(* whether its menu cannot be opened, its menu does not become visible, no   *)
(* CSV item is found or the download times out or errors, the loop goes on   *)
(* with the next panel index, every panel is attempted at most once, and     *)
(* the list returned holds exactly the files of the panels whose download    *)
(* succeeded, in panel order. A menu that is not visible at line 248 ends    *)
(* the function with AssertionError, so this does not hold.                  *)
C24_FailedPanelSkipped ==
    /\ dl_pc # "raised"
    /\ \A k \in 1..Len(attempts) : attempts[k].panel = k - 1
    /\ dl_pc = "loop" => idx = Len(attempts)
    /\ (dl_pc = "loop" /\ attempts # <<>>
            /\ attempts[Len(attempts)].outcome \in Failures) =>
          /\ idx = attempts[Len(attempts)].panel + 1
          /\ results = SavedPanels(attempts)
    /\ dl_pc = "returned" => results = SavedPanels(attempts)

----------------------------------------------------------------------------
(* The session history of app.py: the click on "Ejecutar y mostrar" and the  *)
(* click on "Limpiar historial", each with the script run it starts.         *)

\* line 80
MAX_HISTORY == 5

\* at most MaxReports reports are generated in a session
MaxReports == 7

\* the scripts of the selectbox of line 455 that a run accepts
Opciones == {"Reporte General", "Script 2"}

\* _available_months(df) of the files uploaded: no month, or two months
MonthLists == {<<>>, <<"2024-05", "2024-06">>}

\* an item of the history: n stands for what tells the reports apart
\* (payload, when), months for _available_months(df_raw)
Report(n, script, months) == [n |-> n, script |-> script, months |-> months]

Least(a, b) == IF a < b THEN a ELSE b

\* an insertion that keeps the last MAX_HISTORY items: history[-MAX_HISTORY:]
insert_keep_last(hist, item) ==
    LET h == <<item>> \o hist
    IN  SubSeq(h, Len(h) - Least(Len(h), MAX_HISTORY) + 1, Len(h))

\* lines 493-501: history.insert(0, item); history = history[:MAX_HISTORY]
insert_first(hist, item) ==
    LET h == <<item>> \o hist
    IN  SubSeq(h, 1, Least(Len(h), MAX_HISTORY))

\* build_auto_views lines 229-234: without a selection the last month is
\* selected and made the pending value; <<selected_months, pending>>
build_auto_views_months(sel, pending, meses) ==
    IF meses # <<>> /\ sel = <<>>
    THEN <<<<meses[Len(meses)]>>, ListValue(<<meses[Len(meses)]>>)>>
    ELSE <<sel, pending>>

\* lines 540-541: the bootstrap of the month filter
bootstrap_months(sel, meses) ==
    IF sel = <<>>
    THEN (IF meses # <<>> THEN <<meses[Len(meses)]>> ELSE <<>>)
    ELSE sel

InitHistory ==
    /\ DatesIdle
    /\ DiasIdle
    /\ AliasIdle
    /\ GridIdle
    /\ DlIdle
    /\ HistIdle
    /\ hoy = <<2024, 6, 1>>

\* what the session history leaves alone
notHistory == <<datesVars, diasVars, aliasVars, gridVars, dlVars>>

\* "Ejecutar y mostrar" with a file and a script chosen: lines 472-501, and
\* the rest of the script run: the selectbox of line 514, the bootstrap of
\* lines 536-541 and the views of line 575
run_report ==
    /\ generated < MaxReports
    /\ \E opcion \in Opciones : \E meses \in MonthLists :
        LET first == build_auto_views_months(selected_months,
                                             pending_months_value, meses)
            hist == insert_first(history, Report(generated + 1, opcion, meses))
        IN  /\ history' = hist
            /\ \E sel \in 1..Len(hist) :
                LET boot == bootstrap_months(first[1], hist[sel].months)
                    last == build_auto_views_months(boot, first[2],
                                                    hist[sel].months)
                IN  /\ selected_months' = last[1]
                    /\ pending_months_value' = last[2]
    /\ generated' = generated + 1
    /\ since_clear' = since_clear + 1
    /\ hist_event' = "run"
    /\ screen' = "rendered"
    /\ UNCHANGED notHistory

\* the same click when pd.read_csv or the script raises (only TypeError is
\* caught, line 481): the script run ends before line 493
run_report_fails ==
    /\ generated < MaxReports
    /\ hist_event' = "failed"
    /\ screen' = "exception"
    /\ UNCHANGED <<history, selected_months, pending_months_value, generated,
                   since_clear, notHistory>>

\* "Limpiar historial", a button of the branch with a history: lines 528-532;
\* st.rerun() runs the script again, which stops at line 536 because
\* current is not bound when the history is empty
clear_history ==
    /\ history # <<>>
    /\ history' = <<>>
    /\ selected_months' = <<>>
    /\ pending_months_value' = ListValue(<<>>)
    /\ since_clear' = 0
    /\ hist_event' = "clear"
    /\ screen' = "NameError"
    /\ UNCHANGED <<generated, notHistory>>

NextHistory == run_report \/ run_report_fails \/ clear_history

SpecHistory == InitHistory /\ [][NextHistory]_vars

----------------------------------------------------------------------------
(* C26: the session history is bounded and newest first: after any sequence *)
(* of runs and clearings it holds at most MAX_HISTORY = 5 items, the report  *)
(* generated last is at index 0, the items are in the order of generation    *)
(* without a gap, so the sixth report discards the oldest one, and a         *)
(* clearing leaves history, selected_months and pending_months_value empty.  *)
C26_HistoryBounded ==
    /\ Len(history) <= 5
    /\ Len(history) = Least(since_clear, 5)
    /\ history # <<>> => history[1].n = generated
    /\ \A k \in 1..Len(history) : history[k].n = generated - (k - 1)
    /\ hist_event = "run" => history # <<>>
    /\ hist_event = "clear" =>
          /\ history = <<>>
          /\ selected_months = <<>>
          /\ pending_months_value = ListValue(<<>>)

\* the sixth report of a session has been generated: the history holds the
\* reports 6, 5, 4, 3, 2 and the first one is gone
C26_Witness ==
    /\ hist_event = "run"
    /\ generated = 6
    /\ since_clear = 6
    /\ Len(history) = 5
    /\ history[1].n = 6
    /\ history[5].n = 2
    /\ \A k \in 1..Len(history) : history[k].n # 1

====
